---------------------------- MODULE Spec2Model ----------------------------
(***************************************************************************)
(* prompt-schema: the extraction engine that turns a JSON-Schema document  *)
(* into a SchemaModel (a tree of SchemaField values).                      *)
(*                                                                         *)
(* Representation.  A JSON-Schema node is a record with one field per      *)
(* schema key.  An optional key is a sequence of length 0 (absent) or 1    *)
(* (present, holding the value).  `type` is a list of type names together  *)
(* with typeKind ("absent", "string": type[1] is the name, "array").       *)
(* `items` is a list of nodes with itemsKind ("absent", "single", "list"). *)
(* `bad` names the keys that hold a non-array, non-iterable object where a *)
(* list is expected; isNull marks the JSON value null in a node position.  *)
(* A literal (enum member, const) is a record: a string or a number.       *)
(*                                                                         *)
(* A SchemaField is a record with one field per attribute; `set` names the *)
(* optional attributes that the code assigned.  A position of TypeScript   *)
(* type `FieldType | SchemaField` holds a record too: a bare kind k is the *)
(* record Bare(k).  Two attributes are bookkeeping of the model and not of  *)
(* the code's objects: `depth` is the depth argument of the call that      *)
(* built the value, `index` the position of a property in the iteration of *)
(* Object.entries(schema.properties) that produced it (1, 2, ...).         *)
(***************************************************************************)
EXTENDS Integers, Sequences, FiniteSets, TLC

VARIABLES pc, schema, options, outcome, fields, kind, unwrapped, OPTIONS, memo,
          themes, request, text, message,
          adapters, registered, input, prompt, used

vars == <<pc, schema, options, outcome, fields, kind, unwrapped, OPTIONS, memo,
          themes, request, text, message,
          adapters, registered, input, prompt, used>>

(* The state of rendering: the themes of defaultRegistry, the style and    *)
(* indentSize asked for, the text returned and the message of the error    *)
(* thrown                                                                  *)
renderVars == <<themes, request, text, message>>

(* The state of a PromptSchema: its adapters; the names the caller         *)
(* registered, oldest first; the schema and options of the last toPrompt   *)
(* or getPrompts call and the name of the adapter that converted it        *)
adapterVars == <<adapters, registered, input, prompt, used>>

(* The state that outlives a call: the module-level OPTIONS object of      *)
(* extractToModel.ts, and the record of the results returned so far for    *)
(* the caller's document                                                   *)
callVars == <<OPTIONS, memo>>

-----------------------------------------------------------------------------
(* Bounds of the checked input space *)

MaxNest == 3

MaxDepthBound == 2

MaxKeys == 2

MaxBranches == 3

MaxProps == 3
(* Longest list of discriminator-candidate union branches *)
MaxVariants == 2

(* extractToModel.ts: OPTIONS.maxDepth *)
OptionsMaxDepth == 3

(* extractField.ts: the fallback of `options.maxDepth || 3` *)
FallbackMaxDepth == 3

-----------------------------------------------------------------------------
(* Optional values and literals *)

None == <<>>

Some(x) == <<x>>

Has(o) == o /= <<>>

Get(o) == o[1]

StrLit(s) == [isNum |-> FALSE, s |-> s, n |-> 0]

NumLit(n) == [isNum |-> TRUE, s |-> "", n |-> n]

DigitStr == <<"1", "2", "3", "4", "5", "6", "7", "8", "9">>

(* String(v) for a literal: a string is itself, a number its decimal text *)
String(v) == IF v.isNum THEN (IF v.n = 0 THEN "0" ELSE DigitStr[v.n]) ELSE v.s

RECURSIVE MapString(_)
MapString(vs) == IF vs = <<>> THEN <<>> ELSE <<String(Head(vs))>> \o MapString(Tail(vs))

-----------------------------------------------------------------------------
(* JSON-Schema nodes (types.ts: JsonSchema) *)

Node0 ==
  [ isNull |-> FALSE, bad |-> {},
    typeKind |-> "absent", type |-> <<>>,
    properties |-> None, required |-> None,
    itemsKind |-> "absent", items |-> <<>>,
    enum |-> None, const |-> None,
    anyOf |-> None, oneOf |-> None, allOf |-> None, not |-> None,
    additionalProperties |-> None,
    description |-> None, examples |-> None, badExamples |-> None,
    default |-> None,
    minLength |-> None, maxLength |-> None, pattern |-> None, format |-> None,
    minimum |-> None, maximum |-> None, minItems |-> None, maxItems |-> None ]

NullNode == [Node0 EXCEPT !.isNull = TRUE]

T(name) == [Node0 EXCEPT !.typeKind = "string", !.type = <<name>>]

TArr(names) == [Node0 EXCEPT !.typeKind = "array", !.type = names]

Prop(name, s) == [name |-> name, schema |-> s]

(* JavaScript truthiness of schema[key] for a list-valued key *)
Truthy(s, key) == Has(s[key]) \/ key \in s.bad

(* Array.isArray(schema[key]) *)
IsArray(s, key) == Has(s[key])

(* schema.type === name *)
TypeIs(s, name) == s.typeKind = "string" /\ s.type[1] = name

(* schema.properties?.[name] *)
RECURSIVE LookupProp(_, _)
LookupProp(props, name) ==
  IF props = <<>> THEN None
  ELSE IF Head(props).name = name THEN Some(Head(props).schema)
  ELSE LookupProp(Tail(props), name)

-----------------------------------------------------------------------------
(* SchemaField values (extractors/types.ts) *)

FieldTypes ==
  { "string", "number", "integer", "boolean", "object", "array", "enum", "date",
    "union", "discriminated-union", "record", "tuple", "any" }

Field0 ==
  [ bare |-> FALSE, name |-> "", type |-> "any", isRequired |-> FALSE,
    isNullable |-> FALSE, set |-> {}, depth |-> 0, index |-> 0,
    enumValues |-> <<>>, arrayItemType |-> <<>>, tupleItems |-> <<>>,
    recordKeyType |-> "", recordValueType |-> <<>>, objectFields |-> <<>>,
    unionVariants |-> <<>>, unionTypes |-> <<>>, discriminatorField |-> "",
    description |-> None, constraints |-> <<>>, examples |-> <<>>,
    defaultValue |-> None ]

Bare(k) == [Field0 EXCEPT !.bare = TRUE, !.type = k]

-----------------------------------------------------------------------------
(* extractors/utils/detectFieldType.ts *)

(* Mutant: the allOf rule tried before the oneOf/anyOf rule *)
detectFieldType_allOfFirst(s) ==
  IF Truthy(s, "enum") THEN "enum"
  ELSE IF Has(s.const) THEN "enum"
  ELSE IF Truthy(s, "allOf") THEN "object"
  ELSE IF Truthy(s, "oneOf") \/ Truthy(s, "anyOf") THEN "union"
  ELSE IF s.typeKind = "array" /\ Len(s.type) > 1 THEN "union"
  ELSE IF TypeIs(s, "object")
    THEN (IF Has(s.additionalProperties) /\ ~Has(s.properties) THEN "record" ELSE "object")
  ELSE IF TypeIs(s, "array")
    THEN (IF s.itemsKind = "list" THEN "tuple" ELSE "array")
  ELSE IF TypeIs(s, "string") /\ s.format = Some("date-time") THEN "date"
  ELSE IF TypeIs(s, "integer") THEN "integer"
  ELSE IF TypeIs(s, "number") THEN "number"
  ELSE IF TypeIs(s, "boolean") THEN "boolean"
  ELSE IF TypeIs(s, "string") THEN "string"
  ELSE "any"

detectFieldType(s) ==
  IF Truthy(s, "enum") THEN "enum"
  ELSE IF Has(s.const) THEN "enum"
  ELSE IF Truthy(s, "oneOf") \/ Truthy(s, "anyOf") THEN "union"
  ELSE IF Truthy(s, "allOf") THEN "object"
  ELSE IF s.typeKind = "array" /\ Len(s.type) > 1 THEN "union"
  ELSE IF TypeIs(s, "object")
    THEN (IF Has(s.additionalProperties) /\ ~Has(s.properties) THEN "record" ELSE "object")
  ELSE IF TypeIs(s, "array")
    THEN (IF s.itemsKind = "list" THEN "tuple" ELSE "array")
  ELSE IF TypeIs(s, "string") /\ s.format = Some("date-time") THEN "date"
  ELSE IF TypeIs(s, "integer") THEN "integer"
  ELSE IF TypeIs(s, "number") THEN "number"
  ELSE IF TypeIs(s, "boolean") THEN "boolean"
  ELSE IF TypeIs(s, "string") THEN "string"
  ELSE "any"

(* extractors/utils/getVariantType.ts *)
getVariantType(s) ==
  IF TypeIs(s, "string") THEN "string"
  ELSE IF TypeIs(s, "number") THEN "number"
  ELSE IF TypeIs(s, "integer") THEN "integer"
  ELSE IF TypeIs(s, "boolean") THEN "boolean"
  ELSE IF TypeIs(s, "object") THEN "object"
  ELSE IF TypeIs(s, "array") THEN "array"
  ELSE IF Truthy(s, "enum") THEN "enum"
  ELSE "unknown"

(* v.properties?.[fieldName]?.const: the optional const of a branch's property *)
PropConst(v, fieldName) ==
  IF ~Has(v.properties) THEN None
  ELSE LET p == LookupProp(Get(v.properties), fieldName)
       IN  IF ~Has(p) THEN None
           ELSE IF Get(p).isNull THEN None
           ELSE Get(p).const

DiscriminatorNames == <<"type", "kind", "discriminator">>

(* Mutant: a name qualifies as soon as one branch carries it as a const *)
FirstDiscriminator_anyBranch(variants, names) ==
  LET hits == SelectSeq(names,
                LAMBDA n : \E i \in 1..Len(variants) : Has(PropConst(variants[i], n)))
  IN  IF hits = <<>> THEN <<>> ELSE <<hits[1]>>

(* extractors/utils/findDiscriminator.ts: the first candidate name every branch *)
(* carries as a const property, or None (null) *)
RECURSIVE FirstDiscriminator(_, _)
FirstDiscriminator(variants, names) ==
  IF names = <<>> THEN None
  ELSE IF \A i \in 1..Len(variants) : Has(PropConst(variants[i], Head(names)))
    THEN Some(Head(names))
  ELSE FirstDiscriminator(variants, Tail(names))

(* Mutant: 'kind' tried before 'type' *)
findDiscriminator_kindFirst(variants) ==
  FirstDiscriminator(variants, <<"kind", "type", "discriminator">>)

findDiscriminator(variants) == FirstDiscriminator(variants, DiscriminatorNames)

(* Array.prototype.find(test) is FirstOf(SelectSeq(list, test)): the first *)
(* element satisfying the test, as an option                               *)
FirstOf(hits) == IF hits = <<>> THEN None ELSE Some(hits[1])

(* Mutant: the anyOf encoding accepted only with exactly one null branch *)
unwrapNullable_oneNullOnly(s) ==
  LET branches == IF IsArray(s, "anyOf") THEN Get(s.anyOf) ELSE <<>>
      nullSchemas == SelectSeq(branches, LAMBDA b : TypeIs(b, "null"))
      nonNullSchemas == SelectSeq(branches, LAMBDA b : ~TypeIs(b, "null"))
      first == nonNullSchemas[1]
      innerActual ==
        IF IsArray(first, "anyOf")
          THEN FirstOf(SelectSeq(Get(first.anyOf), LAMBDA b : ~Has(b.not)))
          ELSE None
      nonNullTypes == SelectSeq(s.type, LAMBDA t : t /= "null")
  IN  IF IsArray(s, "anyOf") /\ Len(nullSchemas) = 1 /\ Len(nonNullSchemas) = 1
        THEN [ actualSchema |-> IF Has(innerActual) THEN Get(innerActual) ELSE first,
               isNullable |-> TRUE ]
      ELSE IF s.typeKind = "array" /\ (\E i \in 1..Len(s.type) : s.type[i] = "null")
        THEN [ actualSchema |->
                 [s EXCEPT !.type = nonNullTypes,
                           !.typeKind = IF Len(nonNullTypes) = 1 THEN "string" ELSE "array"],
               isNullable |-> TRUE ]
      ELSE [actualSchema |-> s, isNullable |-> FALSE]

(* extractors/utils/unwrapNullable.ts *)
unwrapNullable(s) ==
  LET branches == IF IsArray(s, "anyOf") THEN Get(s.anyOf) ELSE <<>>
      hasNull == \E i \in 1..Len(branches) : TypeIs(branches[i], "null")
      nonNullSchemas == SelectSeq(branches, LAMBDA b : ~TypeIs(b, "null"))
      first == nonNullSchemas[1]
      innerActual ==
        IF IsArray(first, "anyOf")
          THEN FirstOf(SelectSeq(Get(first.anyOf), LAMBDA b : ~Has(b.not)))
          ELSE None
      nonNullTypes == SelectSeq(s.type, LAMBDA t : t /= "null")
  IN  IF IsArray(s, "anyOf") /\ hasNull /\ Len(nonNullSchemas) = 1
        THEN [ actualSchema |-> IF Has(innerActual) THEN Get(innerActual) ELSE first,
               isNullable |-> TRUE ]
      ELSE IF s.typeKind = "array" /\ (\E i \in 1..Len(s.type) : s.type[i] = "null")
        THEN [ actualSchema |->
                 [s EXCEPT !.type = nonNullTypes,
                           !.typeKind = IF Len(nonNullTypes) = 1 THEN "string" ELSE "array"],
               isNullable |-> TRUE ]
      ELSE [actualSchema |-> s, isNullable |-> FALSE]

-----------------------------------------------------------------------------
(* extractors/extractConstraints.ts *)

Constraint(t, v, d) == [type |-> t, value |-> v, display |-> d]

NonEmpty(o) == Has(o) /\ Get(o) /= ""

extractConstraints(s) ==
    (IF Has(s.minLength)
       THEN <<Constraint("minLength", NumLit(Get(s.minLength)),
                         <<"min ", String(NumLit(Get(s.minLength))), " chars">>)>>
       ELSE <<>>)
 \o (IF Has(s.maxLength)
       THEN <<Constraint("maxLength", NumLit(Get(s.maxLength)),
                         <<"max ", String(NumLit(Get(s.maxLength))), " chars">>)>>
       ELSE <<>>)
 \o (IF NonEmpty(s.pattern)
       THEN <<Constraint("pattern", StrLit(Get(s.pattern)), <<"pattern: ", Get(s.pattern)>>)>>
       ELSE <<>>)
 \o (IF NonEmpty(s.format)
       THEN <<Constraint("format", StrLit(Get(s.format)), <<"format: ", Get(s.format)>>)>>
       ELSE <<>>)
 \o (IF Has(s.minimum)
       THEN <<Constraint("min", NumLit(Get(s.minimum)),
                         <<"min: ", String(NumLit(Get(s.minimum)))>>)>>
       ELSE <<>>)
 \o (IF Has(s.maximum)
       THEN <<Constraint("max", NumLit(Get(s.maximum)),
                         <<"max: ", String(NumLit(Get(s.maximum)))>>)>>
       ELSE <<>>)
 \o (IF Has(s.minItems)
       THEN <<Constraint("minItems", NumLit(Get(s.minItems)),
                         <<"min ", String(NumLit(Get(s.minItems))), " items">>)>>
       ELSE <<>>)
 \o (IF Has(s.maxItems)
       THEN <<Constraint("maxItems", NumLit(Get(s.maxItems)),
                         <<"max ", String(NumLit(Get(s.maxItems))), " items">>)>>
       ELSE <<>>)

-----------------------------------------------------------------------------
(* Extraction options.  The caller's options record gives maxDepth as       *)
(* "absent" (no such key, or no options at all), "undefined" (the key with  *)
(* value undefined, as PromptSchema.formatWithModel passes it when toPrompt *)
(* got no maxDepth) or "number".                                            *)

CallerOptions(given, n, incl) == [given |-> given, maxDepth |-> n, includeDefaults |-> incl]

(* extractToModel.ts: const OPTIONS = { maxDepth: 3, includeDefaults: false } *)
DefaultOptions == [maxDepth |-> <<OptionsMaxDepth>>, includeDefaults |-> FALSE]

(* { ...defaults, ...options }: the new object the spread builds *)
Spread(defaults, o) ==
  [ maxDepth |-> IF o.given = "absent" THEN defaults.maxDepth
                 ELSE IF o.given = "undefined" THEN None
                 ELSE Some(o.maxDepth),
    includeDefaults |-> o.includeDefaults \/ defaults.includeDefaults ]

(* Mutant: Object.assign(OPTIONS, options), which writes the caller's keys *)
(* into the shared object                                                  *)
SpreadSource_assigned(defaults, o) == Spread(defaults, o)

(* The object a spread reads from, after the spread: left as it was *)
SpreadSource(defaults, o) == defaults

(* extractToModel.ts: const opts = { ...OPTIONS, ...options } *)
MergeOptions(o) == Spread(DefaultOptions, o)

(* extractField.ts: (options.maxDepth || 3) *)
DepthLimit(opts) ==
  IF Has(opts.maxDepth) /\ Get(opts.maxDepth) /= 0
    THEN Get(opts.maxDepth)
    ELSE FallbackMaxDepth

-----------------------------------------------------------------------------
(* extractors/extractObjectFields.ts: the comparator of fields.sort *)

(* Mutant: no required-before-optional order among the tagged fields *)
compareFields_threeBuckets(a, b) ==
  IF a.discriminatorField /= "" /\ b.discriminatorField = "" THEN -1
  ELSE IF a.discriminatorField = "" /\ b.discriminatorField /= "" THEN 1
  ELSE IF a.discriminatorField /= "" /\ b.discriminatorField /= "" THEN 0
  ELSE IF a.isRequired /\ ~b.isRequired THEN -1
  ELSE IF ~a.isRequired /\ b.isRequired THEN 1
  ELSE 0

compareFields(a, b) ==
  IF a.discriminatorField /= "" /\ b.discriminatorField = "" THEN -1
  ELSE IF a.discriminatorField = "" /\ b.discriminatorField /= "" THEN 1
  ELSE IF a.isRequired /\ ~b.isRequired THEN -1
  ELSE IF ~a.isRequired /\ b.isRequired THEN 1
  ELSE 0

(* Array.prototype.sort is stable: an element is placed after every element *)
(* already placed that does not compare greater than it *)
RECURSIVE InsertField(_, _)
InsertField(sorted, x) ==
  IF sorted = <<>> THEN <<x>>
  ELSE IF compareFields(Head(sorted), x) <= 0
    THEN <<Head(sorted)>> \o InsertField(Tail(sorted), x)
  ELSE <<x>> \o sorted

RECURSIVE SortFrom(_, _)
SortFrom(sorted, rest) ==
  IF rest = <<>> THEN sorted
  ELSE SortFrom(InsertField(sorted, Head(rest)), Tail(rest))

sortFields(fs) == SortFrom(<<>>, fs)

(* Array.prototype.join(', ') over strings, as the list of its pieces *)
RECURSIVE Join(_)
Join(strs) ==
  IF strs = <<>> THEN <<>>
  ELSE IF Len(strs) = 1 THEN strs
  ELSE <<Head(strs), ", ">> \o Join(Tail(strs))

SeqToSet(q) == {q[i] : i \in 1..Len(q)}

-----------------------------------------------------------------------------
(* The recursive extractors *)

RECURSIVE extractField(_, _, _, _, _)
RECURSIVE extractObjectFields(_, _, _)
RECURSIVE extractArrayItemType(_, _, _)
RECURSIVE extractUnionField(_, _, _, _, _)
RECURSIVE extractUnionData(_, _, _)

(* Mutant: a property counts as required as soon as a required list exists *)
extractObjectFields_requiredIfListed(s, opts, depth) ==
  LET props == IF Has(s.properties) THEN Get(s.properties) ELSE <<>>
      fs == [i \in 1..Len(props) |->
               [extractField(props[i].name, props[i].schema,
                             Has(s.required), opts, depth)
                  EXCEPT !.index = i]]
  IN  sortFields(fs)

(* extractors/extractObjectFields.ts *)
extractObjectFields(s, opts, depth) ==
  LET required == IF Has(s.required) THEN SeqToSet(Get(s.required)) ELSE {}
      props == IF Has(s.properties) THEN Get(s.properties) ELSE <<>>
      fs == [i \in 1..Len(props) |->
               [extractField(props[i].name, props[i].schema,
                             props[i].name \in required, opts, depth)
                  EXCEPT !.index = i]]
  IN  sortFields(fs)

(* extractUnionData.ts, one branch of a plain union: its unionTypes entry *)
UnionTypeOf(variant, opts, depth) ==
  IF Truthy(variant, "enum")
    THEN [Field0 EXCEPT !.name = "variant", !.type = "enum", !.isRequired = TRUE,
                        !.depth = depth, !.set = {"enumValues"},
                        !.enumValues = MapString(Get(variant.enum))]
  ELSE IF Has(variant.properties)
    THEN [Field0 EXCEPT !.name = "variant", !.type = "object", !.isRequired = TRUE,
                        !.depth = depth, !.set = {"objectFields"},
                        !.objectFields = extractObjectFields(variant, opts, depth + 1)]
  ELSE IF variant.typeKind = "string" /\ variant.type[1] /= ""
    THEN Bare(variant.type[1])
  ELSE Bare("any")

(* extractors/extractUnionData.ts *)
extractUnionData(s, opts, depth) ==
  LET variants == IF Has(s.oneOf) THEN Get(s.oneOf)
                  ELSE IF Has(s.anyOf) THEN Get(s.anyOf)
                  ELSE <<>>
      discriminatorField == findDiscriminator(variants)
  IN  IF Has(discriminatorField) /\ Get(discriminatorField) /= ""
        THEN [ isDiscriminated |-> TRUE,
               variants |->
                 LET tagged == SelectSeq(variants,
                                 LAMBDA v : Has(PropConst(v, Get(discriminatorField))))
                 IN  [i \in 1..Len(tagged) |->
                        [ discriminatorValue |->
                            String(Get(PropConst(tagged[i], Get(discriminatorField)))),
                          fields |-> extractObjectFields(tagged[i], opts, depth + 1) ]],
               discriminatorField |-> Get(discriminatorField),
               types |-> <<>>,
               unionTypes |-> <<>> ]
        ELSE [ isDiscriminated |-> FALSE,
               variants |-> <<>>,
               discriminatorField |-> "",
               types |-> [i \in 1..Len(variants) |-> getVariantType(variants[i])],
               unionTypes |->
                 [i \in 1..Len(variants) |-> UnionTypeOf(variants[i], opts, depth)] ]

(* extractUnionField.ts, lines 16-32: the field built from the union data *)
UnionFieldOf(name, isRequired, depth, unionData) ==
  IF unionData.isDiscriminated
    THEN [Field0 EXCEPT !.name = name, !.type = "discriminated-union",
                        !.isRequired = isRequired, !.depth = depth,
                        !.set = {"unionVariants", "discriminatorField"},
                        !.unionVariants = unionData.variants,
                        !.discriminatorField = unionData.discriminatorField]
    ELSE [Field0 EXCEPT !.name = name, !.type = "union",
                        !.isRequired = isRequired, !.depth = depth,
                        !.set = {"unionTypes", "description"},
                        !.unionTypes = unionData.unionTypes,
                        !.description = Some(<<"Union of ">> \o Join(unionData.types))]

(* extractors/extractUnionField.ts *)
extractUnionField(name, s, isRequired, opts, depth) ==
  UnionFieldOf(name, isRequired, depth, extractUnionData(s, opts, depth))

(* Mutant: the last enum alternative is hoisted *)
EnumOrUnion_lastEnum(unionField, depth) ==
  LET enums ==
        IF unionField.type = "union"
          THEN SelectSeq(unionField.unionTypes,
                 LAMBDA t : ~t.bare /\ t.type = "enum" /\ "enumValues" \in t.set)
          ELSE <<>>
  IN  IF enums /= <<>>
        THEN [Field0 EXCEPT !.name = "item", !.type = "enum", !.isRequired = TRUE,
                            !.depth = depth, !.set = {"enumValues"},
                            !.enumValues = enums[Len(enums)].enumValues]
        ELSE unionField

(* extractArrayItemType.ts, lines 17-33: a union item that has an enum *)
(* variant is reported as that enum, any other union item as the union *)
EnumOrUnion(unionField, depth) ==
  LET enumVariant ==
        IF unionField.type = "union"
          THEN FirstOf(SelectSeq(unionField.unionTypes,
                 LAMBDA t : ~t.bare /\ t.type = "enum" /\ "enumValues" \in t.set))
          ELSE None
  IN  IF Has(enumVariant)
        THEN [Field0 EXCEPT !.name = "item", !.type = "enum", !.isRequired = TRUE,
                            !.depth = depth, !.set = {"enumValues"},
                            !.enumValues = Get(enumVariant).enumValues]
        ELSE unionField

(* extractors/extractArrayItemType.ts *)
extractArrayItemType(itemSchema, opts, depth) ==
  IF Truthy(itemSchema, "oneOf") \/ Truthy(itemSchema, "anyOf")
    THEN EnumOrUnion(extractUnionField("item", itemSchema, TRUE, opts, depth + 1), depth)
  ELSE IF itemSchema.typeKind = "string" /\ itemSchema.type[1] /= ""
          /\ ~Has(itemSchema.properties)
    THEN IF Truthy(itemSchema, "enum")
           THEN [Field0 EXCEPT !.name = "item", !.type = "enum", !.isRequired = TRUE,
                               !.depth = depth, !.set = {"enumValues"},
                               !.enumValues = MapString(Get(itemSchema.enum))]
           ELSE Bare(itemSchema.type[1])
  ELSE IF TypeIs(itemSchema, "object") \/ Has(itemSchema.properties)
    THEN [Field0 EXCEPT !.name = "item", !.type = "object", !.isRequired = TRUE,
                        !.depth = depth, !.set = {"objectFields"},
                        !.objectFields = extractObjectFields(itemSchema, opts, depth + 1)]
  ELSE Bare("any")

(* extractArrayItemType applied to schema.items: a value that is itself a *)
(* list has none of the keys the function reads and falls to 'any' *)
ItemTypeOfItems(s, opts, depth) ==
  IF s.itemsKind = "single" THEN extractArrayItemType(s.items[1], opts, depth)
  ELSE Bare("any")

(* extractField.ts: examples.map(value => ({ value, isCorrect })) *)
Examples(vals, isCorrect) ==
  [i \in 1..Len(vals) |-> [value |-> vals[i], isCorrect |-> isCorrect]]

(* extractField.ts, the record branch: the value type of additionalProperties *)
RecordValueType(valueSchema, opts, depth) ==
  IF Has(valueSchema.properties)
    THEN [Field0 EXCEPT !.name = "value", !.type = "object", !.isRequired = TRUE,
                        !.depth = depth, !.set = {"objectFields"},
                        !.objectFields = extractObjectFields(valueSchema, opts, depth + 1)]
  ELSE IF valueSchema.typeKind = "string" /\ valueSchema.type[1] /= ""
    THEN Bare(valueSchema.type[1])
  ELSE Bare("any")

(* Mutant: the kind is left at 'union' for a discriminated union *)
UnionPayload_keepsKind(field, unionData) ==
  IF unionData.isDiscriminated
    THEN [field EXCEPT !.set = @ \cup {"unionVariants", "discriminatorField"},
                       !.unionVariants = unionData.variants,
                       !.discriminatorField = unionData.discriminatorField]
    ELSE [field EXCEPT !.type = "union",
                       !.set = @ \cup {"unionTypes", "description"},
                       !.unionTypes = unionData.unionTypes,
                       !.description = Some(<<"Union of ">> \o Join(unionData.types))]

(* extractField.ts, lines 143-152: the union payload of a field *)
UnionPayload(field, unionData) ==
  IF unionData.isDiscriminated
    THEN [field EXCEPT !.type = "discriminated-union",
                       !.set = @ \cup {"unionVariants", "discriminatorField"},
                       !.unionVariants = unionData.variants,
                       !.discriminatorField = unionData.discriminatorField]
    ELSE [field EXCEPT !.type = "union",
                       !.set = @ \cup {"unionTypes", "description"},
                       !.unionTypes = unionData.unionTypes,
                       !.description = Some(<<"Union of ">> \o Join(unionData.types))]

(* extractField.ts, lines 98-153: the type-specific payload of a field *)
TypeSpecific(field, name, actualSchema, opts, depth) ==
  IF Truthy(actualSchema, "enum")
    THEN [field EXCEPT !.type = "enum", !.set = @ \cup {"enumValues"},
                       !.enumValues = MapString(Get(actualSchema.enum))]
  ELSE IF Has(actualSchema.const)
    THEN [field EXCEPT !.type = "enum", !.set = @ \cup {"enumValues", "discriminatorField"},
                       !.enumValues = <<String(Get(actualSchema.const))>>,
                       !.discriminatorField = name]
  ELSE IF field.type = "record" /\ Has(actualSchema.additionalProperties)
    THEN [field EXCEPT !.set = @ \cup {"recordKeyType", "recordValueType"},
                       !.recordKeyType = "string",
                       !.recordValueType =
                         <<RecordValueType(Get(actualSchema.additionalProperties), opts, depth)>>]
  ELSE IF field.type = "object" /\ depth < DepthLimit(opts)
    THEN IF Has(actualSchema.properties)
           THEN [field EXCEPT !.set = @ \cup {"objectFields"},
                              !.objectFields = extractObjectFields(actualSchema, opts, depth + 1)]
           ELSE field
  ELSE IF field.type = "tuple" /\ actualSchema.itemsKind = "list"
    THEN [field EXCEPT !.set = @ \cup {"tupleItems"},
                       !.tupleItems =
                         [i \in 1..Len(actualSchema.items) |->
                            extractArrayItemType(actualSchema.items[i], opts, depth)]]
  ELSE IF field.type = "array" /\ actualSchema.itemsKind /= "absent"
    THEN [field EXCEPT !.set = @ \cup {"arrayItemType"},
                       !.arrayItemType = <<ItemTypeOfItems(actualSchema, opts, depth)>>]
  ELSE IF actualSchema.typeKind = "array" /\ Len(actualSchema.type) > 1
    THEN [field EXCEPT !.type = "union", !.set = @ \cup {"unionTypes"},
                       !.unionTypes =
                         [i \in 1..Len(actualSchema.type) |-> Bare(actualSchema.type[i])]]
  ELSE IF (Truthy(actualSchema, "oneOf") \/ Truthy(actualSchema, "anyOf"))
          /\ depth < DepthLimit(opts)
    THEN UnionPayload(field, extractUnionData(actualSchema, opts, depth))
  ELSE field

(* extractField.ts, lines 155-158: the default value, when asked for *)
WithDefault(field, actualSchema, opts) ==
  IF opts.includeDefaults /\ Has(actualSchema.default)
    THEN [field EXCEPT !.set = @ \cup {"defaultValue"},
                       !.defaultValue = actualSchema.default]
    ELSE field

(* extractField.ts, lines 56-160: the field built from the unwrapped schema *)
FieldOf(name, s, unwrap, isRequired, opts, depth) ==
  LET topLevelDescription == s.description
      topLevelExamples == s.examples
      actualSchema == unwrap.actualSchema
      description ==
        IF NonEmpty(topLevelDescription) THEN topLevelDescription
        ELSE actualSchema.description
      examples == IF Has(topLevelExamples) THEN topLevelExamples ELSE actualSchema.examples
      badExamples == IF Has(s.badExamples) THEN s.badExamples ELSE actualSchema.badExamples
      allExamples ==
           (IF Has(examples) THEN Examples(Get(examples), TRUE) ELSE <<>>)
        \o (IF Has(badExamples) THEN Examples(Get(badExamples), FALSE) ELSE <<>>)
      base ==
        [Field0 EXCEPT
           !.name = name,
           !.type = detectFieldType(actualSchema),
           !.isRequired = isRequired,
           !.isNullable = unwrap.isNullable,
           !.depth = depth,
           !.description = IF Has(description) THEN Some(<<Get(description)>>) ELSE None,
           !.constraints = extractConstraints(actualSchema),
           !.examples = allExamples,
           !.set = {"isNullable", "constraints"}
                     \cup (IF Has(description) THEN {"description"} ELSE {})
                     \cup (IF allExamples /= <<>> THEN {"examples"} ELSE {})]
  IN  WithDefault(TypeSpecific(base, name, actualSchema, opts, depth), actualSchema, opts)

(* extractors/extractField.ts *)
extractField(name, s, isRequired, opts, depth) ==
  FieldOf(name, s, unwrapNullable(s), isRequired, opts, depth)

(* extractors/extractArrayField.ts *)
extractArrayField(name, s, isRequired, opts, depth) ==
  LET field == [Field0 EXCEPT
                  !.name = name, !.type = "array", !.isRequired = isRequired,
                  !.depth = depth,
                  !.description = IF Has(s.description) THEN Some(<<Get(s.description)>>)
                                  ELSE None,
                  !.constraints = extractConstraints(s),
                  !.set = {"constraints"}
                            \cup (IF Has(s.description) THEN {"description"} ELSE {})]
  IN  IF s.itemsKind /= "absent"
        THEN [field EXCEPT !.set = @ \cup {"arrayItemType"},
                           !.arrayItemType = <<ItemTypeOfItems(s, opts, depth)>>]
        ELSE field

(* Mutant: the oneOf/anyOf root tried before the array root *)
extractToModel_unionFirst(s, o) ==
  LET opts == MergeOptions(o)
  IN  IF TypeIs(s, "object") /\ Has(s.properties)
        THEN extractObjectFields(s, opts, 0)
      ELSE IF Truthy(s, "oneOf") \/ Truthy(s, "anyOf")
        THEN <<extractUnionField("root", s, TRUE, opts, 0)>>
      ELSE IF TypeIs(s, "array") /\ s.itemsKind /= "absent"
        THEN <<extractArrayField("root", s, TRUE, opts, 0)>>
      ELSE <<extractField("root", s, TRUE, opts, 0)>>

(* extractToModel.ts, lines 27-41: the root-level fields under the merged options *)
RootFields(s, opts) ==
  IF TypeIs(s, "object") /\ Has(s.properties)
    THEN extractObjectFields(s, opts, 0)
  ELSE IF TypeIs(s, "array") /\ s.itemsKind /= "absent"
    THEN <<extractArrayField("root", s, TRUE, opts, 0)>>
  ELSE IF Truthy(s, "oneOf") \/ Truthy(s, "anyOf")
    THEN <<extractUnionField("root", s, TRUE, opts, 0)>>
  ELSE <<extractField("root", s, TRUE, opts, 0)>>

(* extractors/extractToModel.ts: the field list of the returned model *)
extractToModel(s, o) == RootFields(s, MergeOptions(o))

-----------------------------------------------------------------------------
(* Where the extractors raise a TypeError: reading a key of null, calling   *)
(* .map/.every on a value that is no array, iterating a non-iterable into a *)
(* Set.  Each predicate follows the branches of the function it names.      *)

RECURSIVE throwsField(_, _, _)
RECURSIVE throwsObjectFields(_, _, _)
RECURSIVE throwsArrayItemType(_, _, _)
RECURSIVE throwsUnionData(_, _, _)

(* unwrapNullable: s.type of a null branch; !s.not of a null inner branch *)
throwsUnwrap(s) ==
  /\ IsArray(s, "anyOf")
  /\ LET branches == Get(s.anyOf)
         nonNullSchemas == SelectSeq(branches, LAMBDA b : b.isNull \/ ~TypeIs(b, "null"))
         inner == IF IsArray(nonNullSchemas[1], "anyOf")
                    THEN Get(nonNullSchemas[1].anyOf) ELSE <<>>
     IN  \/ \E i \in 1..Len(branches) : branches[i].isNull
         \/ /\ \E i \in 1..Len(branches) : TypeIs(branches[i], "null")
            /\ Len(nonNullSchemas) = 1
            /\ \E j \in 1..Len(inner) :
                 /\ inner[j].isNull
                 /\ \A k \in 1..(j - 1) : Has(inner[k].not)

throwsObjectFields(s, opts, depth) ==
  \/ "required" \in s.bad
  \/ /\ Has(s.properties)
     /\ \E i \in 1..Len(Get(s.properties)) :
          throwsField(Get(s.properties)[i].schema, opts, depth)

throwsUnionData(s, opts, depth) ==
  \/ "oneOf" \in s.bad
  \/ ~Has(s.oneOf) /\ "anyOf" \in s.bad
  \/ LET variants == IF Has(s.oneOf) THEN Get(s.oneOf)
                     ELSE IF Has(s.anyOf) THEN Get(s.anyOf)
                     ELSE <<>>
     IN  \/ \E i \in 1..Len(variants) : variants[i].isNull
         \/ /\ \A i \in 1..Len(variants) : ~variants[i].isNull
            /\ IF Has(findDiscriminator(variants))
                 THEN \E i \in 1..Len(variants) :
                        throwsObjectFields(variants[i], opts, depth + 1)
                 ELSE \E i \in 1..Len(variants) :
                        IF Truthy(variants[i], "enum") THEN "enum" \in variants[i].bad
                        ELSE /\ Has(variants[i].properties)
                             /\ throwsObjectFields(variants[i], opts, depth + 1)

throwsArrayItemType(itemSchema, opts, depth) ==
  \/ itemSchema.isNull
  \/ /\ ~itemSchema.isNull
     /\ IF Truthy(itemSchema, "oneOf") \/ Truthy(itemSchema, "anyOf")
          THEN throwsUnionData(itemSchema, opts, depth + 1)
        ELSE IF itemSchema.typeKind = "string" /\ itemSchema.type[1] /= ""
                /\ ~Has(itemSchema.properties)
          THEN "enum" \in itemSchema.bad
        ELSE IF TypeIs(itemSchema, "object") \/ Has(itemSchema.properties)
          THEN throwsObjectFields(itemSchema, opts, depth + 1)
        ELSE FALSE

throwsField(s, opts, depth) ==
  \/ s.isNull
  \/ ~s.isNull /\ throwsUnwrap(s)
  \/ /\ ~s.isNull
     /\ ~throwsUnwrap(s)
     /\ LET actualSchema == unwrapNullable(s).actualSchema
            type == detectFieldType(actualSchema)
        IN  IF Truthy(actualSchema, "enum") THEN "enum" \in actualSchema.bad
            ELSE IF Has(actualSchema.const) THEN FALSE
            ELSE IF type = "record" /\ Has(actualSchema.additionalProperties)
              THEN /\ Has(Get(actualSchema.additionalProperties).properties)
                   /\ throwsObjectFields(Get(actualSchema.additionalProperties), opts, depth + 1)
            ELSE IF type = "object" /\ depth < DepthLimit(opts)
              THEN /\ Has(actualSchema.properties)
                   /\ throwsObjectFields(actualSchema, opts, depth + 1)
            ELSE IF type = "tuple" /\ actualSchema.itemsKind = "list"
              THEN \E i \in 1..Len(actualSchema.items) :
                     throwsArrayItemType(actualSchema.items[i], opts, depth)
            ELSE IF type = "array" /\ actualSchema.itemsKind /= "absent"
              THEN /\ actualSchema.itemsKind = "single"
                   /\ throwsArrayItemType(actualSchema.items[1], opts, depth)
            ELSE IF actualSchema.typeKind = "array" /\ Len(actualSchema.type) > 1
              THEN FALSE
            ELSE IF (Truthy(actualSchema, "oneOf") \/ Truthy(actualSchema, "anyOf"))
                    /\ depth < DepthLimit(opts)
              THEN throwsUnionData(actualSchema, opts, depth)
            ELSE FALSE

throwsRootFields(s, opts) ==
  \/ s.isNull
  \/ /\ ~s.isNull
     /\ IF TypeIs(s, "object") /\ Has(s.properties)
          THEN throwsObjectFields(s, opts, 0)
        ELSE IF TypeIs(s, "array") /\ s.itemsKind /= "absent"
          THEN s.itemsKind = "single" /\ throwsArrayItemType(s.items[1], opts, 0)
        ELSE IF Truthy(s, "oneOf") \/ Truthy(s, "anyOf")
          THEN throwsUnionData(s, opts, 0)
        ELSE throwsField(s, opts, 0)

throwsToModel(s, o) == throwsRootFields(s, MergeOptions(o))

-----------------------------------------------------------------------------
(* Rendering.  A string is the list of its pieces; a rendered text is the  *)
(* list of its lines, each line being the spaces of its indentation, its   *)
(* pieces, and (bookkeeping of the model) what the line was written for:   *)
(* `of` is "heading", "blank", "field", "discriminator", "variant" or      *)
(* "detail", and `src` is the Field of a "field" line.                     *)

Line(spaces, pieces, of, src) == [indent |-> spaces, text |-> pieces, of |-> of, src |-> src]

(* Array.prototype.join(sep) over strings that are lists of pieces *)
RECURSIVE JoinPieces(_, _)
JoinPieces(items, sep) ==
  IF items = <<>> THEN <<>>
  ELSE IF Len(items) = 1 THEN items[1]
  ELSE items[1] \o <<sep>> \o JoinPieces(Tail(items), sep)

(* a list of strings as a list of one-piece strings *)
Pieces(strs) == [i \in 1..Len(strs) |-> <<strs[i]>>]

(* formatters/types.ts, BaseTheme.indent: ' '.repeat(depth * size) *)
indent(depth, size) == depth * size

(* typeof x === 'string' and typeof x === 'object' of an optional entry *)
IsString(entry) == Has(entry) /\ Get(entry).bare

IsObject(entry) == Has(entry) /\ ~Get(entry).bare

(* unionTypes.map(t => typeof t === 'string' ? t : t.type) *)
KindNames(entries) == [i \in 1..Len(entries) |-> entries[i].type]

(* unionVariants.map(v => v.discriminatorValue) *)
DiscriminatorValues(variants) == [i \in 1..Len(variants) |-> variants[i].discriminatorValue]

(* Mutant: 'nullable' is pushed before 'required' *)
formatModifiers_nullableFirst(field, includeRequired) ==
     (IF field.isNullable THEN <<(<<"nullable">>)>> ELSE <<>>)
  \o (IF includeRequired /\ field.isRequired THEN <<(<<"required">>)>> ELSE <<>>)
  \o [i \in 1..Len(field.constraints) |-> field.constraints[i].display]

(* formatters/types.ts, BaseTheme.formatModifiers *)
formatModifiers(field, includeRequired) ==
     (IF includeRequired /\ field.isRequired THEN <<(<<"required">>)>> ELSE <<>>)
  \o (IF field.isNullable THEN <<(<<"nullable">>)>> ELSE <<>>)
  \o [i \in 1..Len(field.constraints) |->
        IF field.constraints[i].display /= <<>>
          THEN field.constraints[i].display
          ELSE <<field.constraints[i].type, ": ", String(field.constraints[i].value)>>]

(* The separator of modifiers, a bullet (U+2022) between two spaces *)
Bullet == " U+2022 "

(* StandardTheme.getModifiersString, ExpandedTheme.getModifiersString *)
ModifiersString(modifiers) ==
  IF Len(modifiers) > 0 THEN <<" (">> \o JoinPieces(modifiers, Bullet) \o <<")">> ELSE <<>>

getModifiersString(field) == ModifiersString(formatModifiers(field, TRUE))

(* StandardTheme.getPluralType, ExpandedTheme.getPluralType *)
getPluralType(type) ==
  CASE type = "string" -> "strings"
    [] type = "number" -> "numbers"
    [] type = "integer" -> "integers"
    [] type = "boolean" -> "booleans"
    [] type = "object" -> "objects"
    [] type = "array" -> "arrays"
    [] OTHER -> type

(* getTypeRepresentation, the array branch (standard and expanded alike) *)
ArrayRepresentation(field) ==
  IF IsString(field.arrayItemType)
    THEN <<"array of ", getPluralType(Get(field.arrayItemType).type)>>
  ELSE IF IsObject(field.arrayItemType)
    THEN LET itemField == Get(field.arrayItemType)
         IN  IF itemField.type = "enum" /\ "enumValues" \in itemField.set
               THEN <<"array where EACH item MUST BE ONE OF [">>
                      \o JoinPieces(Pieces(itemField.enumValues), ", ") \o <<"]">>
             ELSE IF itemField.type = "object" THEN <<"array of objects">>
             ELSE IF itemField.type = "discriminated-union"
                     /\ itemField.discriminatorField /= ""
               THEN <<"array of objects (", itemField.discriminatorField, " as discriminator)">>
             ELSE <<"array">>
  ELSE <<"array">>

(* getTypeRepresentation, the enum branch (standard and expanded alike) *)
EnumRepresentation(enumValues) ==
  IF Len(enumValues) = 1 THEN <<enumValues[1]>>
  ELSE <<"MUST BE ONE OF [">> \o JoinPieces(Pieces(enumValues), " | ") \o <<"]">>

(* getTypeRepresentation, the branches after union (standard and expanded alike) *)
OtherRepresentation(field) ==
  IF field.type = "tuple" /\ "tupleItems" \in field.set
    THEN <<"[">> \o JoinPieces(Pieces(KindNames(field.tupleItems)), ", ") \o <<"]">>
  ELSE IF field.type = "record" /\ field.recordKeyType /= "" /\ Has(field.recordValueType)
    THEN <<"Record<", field.recordKeyType, ", ", Get(field.recordValueType).type, ">">>
  ELSE IF field.type = "array" THEN ArrayRepresentation(field)
  ELSE IF field.type = "discriminated-union" THEN <<"union">>
  ELSE <<field.type>>

(* formatters/themes/standard-theme.ts, StandardTheme.getTypeRepresentation *)
StandardTheme_getTypeRepresentation(field) ==
  IF field.type = "enum" /\ "enumValues" \in field.set
    THEN EnumRepresentation(field.enumValues)
  ELSE IF field.type = "union" /\ "unionTypes" \in field.set
    THEN JoinPieces(Pieces(KindNames(field.unionTypes)), " | ")
  ELSE OtherRepresentation(field)

RECURSIVE StandardTheme_formatField(_, _, _)
RECURSIVE StandardTheme_formatFields(_, _, _)
RECURSIVE StandardTheme_formatVariants(_, _, _)

(* the loops `for (const nested of ...) output += this.formatField(...)` *)
StandardTheme_formatFields(fs, depth, size) ==
  IF fs = <<>> THEN <<>>
  ELSE StandardTheme_formatField(Head(fs), depth, size)
         \o StandardTheme_formatFields(Tail(fs), depth, size)

(* StandardTheme.formatVariant *)
StandardTheme_formatVariant(variant, depth, size) ==
  <<Line(indent(depth, size), <<"- ", variant.discriminatorValue>>, "variant", Field0)>>
    \o StandardTheme_formatFields(variant.fields, depth + 1, size)

(* the loops `for (const variant of ...) output += this.formatVariant(...)` *)
StandardTheme_formatVariants(vs, depth, size) ==
  IF vs = <<>> THEN <<>>
  ELSE StandardTheme_formatVariant(Head(vs), depth, size)
         \o StandardTheme_formatVariants(Tail(vs), depth, size)

(* the line `${indent}  - ${discriminatorName}: ${discriminatorValues} (required)` *)
StandardTheme_discriminatorLine(field, spaces) ==
  Line(spaces + 2,
       <<"- ", IF field.discriminatorField /= "" THEN field.discriminatorField ELSE "type", ": ">>
         \o JoinPieces(Pieces(DiscriminatorValues(field.unionVariants)), " | ")
         \o <<" (required)">>,
       "discriminator", Field0)

(* StandardTheme.formatField, lines 50-86: what follows a regular field's line *)
StandardTheme_nested(field, depth, size) ==
  IF "objectFields" \in field.set
    THEN StandardTheme_formatFields(field.objectFields, depth + 1, size)
  ELSE IF field.type = "record" /\ IsObject(field.recordValueType)
          /\ "objectFields" \in Get(field.recordValueType).set
    THEN StandardTheme_formatFields(Get(field.recordValueType).objectFields, depth + 1, size)
  ELSE IF field.type = "array" /\ IsObject(field.arrayItemType)
    THEN IF "objectFields" \in Get(field.arrayItemType).set
           THEN StandardTheme_formatFields(Get(field.arrayItemType).objectFields, depth + 1, size)
         ELSE IF "unionVariants" \in Get(field.arrayItemType).set
                 /\ Get(field.arrayItemType).type = "discriminated-union"
           THEN <<StandardTheme_discriminatorLine(Get(field.arrayItemType), indent(depth, size))>>
                  \o StandardTheme_formatVariants(Get(field.arrayItemType).unionVariants,
                                                  depth + 2, size)
         ELSE IF "unionVariants" \in Get(field.arrayItemType).set
           THEN StandardTheme_formatVariants(Get(field.arrayItemType).unionVariants,
                                             depth + 1, size)
         ELSE <<>>
  ELSE <<>>

(* formatters/themes/standard-theme.ts, StandardTheme.formatField *)
StandardTheme_formatField(field, depth, size) ==
  IF field.type = "discriminated-union" /\ "unionVariants" \in field.set
    THEN <<Line(indent(depth, size),
                <<"- ", field.name, ": array of objects">> \o getModifiersString(field),
                "field", field),
           StandardTheme_discriminatorLine(field, indent(depth, size))>>
           \o StandardTheme_formatVariants(field.unionVariants, depth + 2, size)
    ELSE <<Line(indent(depth, size),
                <<"- ", field.name, ": ">> \o StandardTheme_getTypeRepresentation(field)
                  \o getModifiersString(field),
                "field", field)>>
           \o StandardTheme_nested(field, depth, size)

(* String.prototype.trim on a text: the blank lines at its two ends go, as *)
(* does the indentation of its first line                                  *)
RECURSIVE TrimEnd(_)
TrimEnd(lines) ==
  IF lines = <<>> THEN <<>>
  ELSE IF lines[Len(lines)].text = <<>> THEN TrimEnd(SubSeq(lines, 1, Len(lines) - 1))
  ELSE lines

RECURSIVE TrimStart(_)
TrimStart(lines) ==
  IF lines = <<>> THEN <<>>
  ELSE IF Head(lines).text = <<>> THEN TrimStart(Tail(lines))
  ELSE <<[Head(lines) EXCEPT !.indent = 0]>> \o Tail(lines)

(* Mutant: the text is returned untrimmed *)
trim_none(lines) == lines

trim(lines) == TrimStart(TrimEnd(lines))

(* the heading '## Schema\n\n' *)
Heading == <<Line(0, <<"## Schema">>, "heading", Field0), Line(0, <<>>, "blank", Field0)>>

(* formatters/themes/standard-theme.ts, StandardTheme.format *)
StandardTheme_format(modelFields, size) ==
  trim(Heading \o StandardTheme_formatFields(modelFields, 0, size))

(* JSON.stringify of a literal: a string in double quotes, a number as is *)
JSONstringify(v) == IF v.isNum THEN <<String(v)>> ELSE <<"\"", v.s, "\"">>

(* a description that is truthy: present and not the empty string *)
HasDescription(field) ==
  Has(field.description) /\ Get(field.description) /= <<>> /\ Get(field.description) /= <<"">>

(* examples.map(ex => JSON.stringify(ex.value)).join(', ') *)
ExampleValues(examples) ==
  JoinPieces([i \in 1..Len(examples) |-> JSONstringify(examples[i].value)], ", ")

(* PromptSchema.ts (ExpandedTheme.getTypeRepresentation) *)
ExpandedTheme_getTypeRepresentation(field) ==
  IF field.type = "enum" /\ "enumValues" \in field.set
    THEN EnumRepresentation(field.enumValues)
  ELSE IF field.type = "union" /\ "unionTypes" \in field.set
    THEN LET enumVariant ==
               FirstOf(SelectSeq(field.unionTypes,
                 LAMBDA u : ~u.bare /\ u.type = "enum" /\ "enumValues" \in u.set))
         IN  IF Has(enumVariant)
               THEN <<"MUST BE ONE OF [">>
                      \o JoinPieces(Pieces(Get(enumVariant).enumValues), " | ") \o <<"]">>
               ELSE JoinPieces(Pieces(KindNames(field.unionTypes)), " | ")
  ELSE OtherRepresentation(field)

(* ExpandedTheme.formatField: the description sub-item *)
ExpandedTheme_descriptionLine(field, spaces) ==
  IF HasDescription(field)
    THEN <<Line(spaces + 2, <<"- ">> \o Get(field.description), "detail", field)>>
    ELSE <<>>

(* ExpandedTheme.formatField: the Examples sub-item over all the examples *)
ExpandedTheme_allExamplesLine(field, spaces) ==
  IF Len(field.examples) > 0
    THEN <<Line(spaces + 2, <<"- Examples: ">> \o ExampleValues(field.examples),
                "detail", field)>>
    ELSE <<>>

(* ExpandedTheme.formatField, lines 94-112: correct and invalid examples *)
ExpandedTheme_examplesLines(field, spaces) ==
  LET correctExamples == SelectSeq(field.examples, LAMBDA ex : ex.isCorrect)
      incorrectExamples == SelectSeq(field.examples, LAMBDA ex : ~ex.isCorrect)
  IN    (IF Len(correctExamples) > 0
           THEN <<Line(spaces + 2, <<"- Examples: ">> \o ExampleValues(correctExamples),
                       "detail", field)>>
           ELSE <<>>)
     \o (IF Len(incorrectExamples) > 0
           THEN <<Line(spaces + 2,
                       <<"- INVALID Examples (DO NOT USE): ">> \o ExampleValues(incorrectExamples),
                       "detail", field)>>
           ELSE <<>>)

(* the line `${indent}  - ${discriminatorName}: Must be one of ... (required)` *)
ExpandedTheme_discriminatorLine(field, spaces) ==
  Line(spaces + 2,
       <<"- ", IF field.discriminatorField /= "" THEN field.discriminatorField ELSE "type",
         ": Must be one of ">>
         \o JoinPieces(Pieces(DiscriminatorValues(field.unionVariants)), " | ")
         \o <<" (required)">>,
       "discriminator", Field0)

(* ExpandedTheme.formatField, lines 77-87: the warning under an enum array *)
ExpandedTheme_criticalLine(field, spaces) ==
  IF field.type = "array" /\ IsObject(field.arrayItemType)
     /\ Get(field.arrayItemType).type = "enum"
     /\ "enumValues" \in Get(field.arrayItemType).set
    THEN <<Line(spaces + 2,
                <<"- CRITICAL: Values MUST be from the list above. No other values are valid.">>,
                "detail", field)>>
    ELSE <<>>

RECURSIVE ExpandedTheme_formatField(_, _, _)
RECURSIVE ExpandedTheme_formatFields(_, _, _)
RECURSIVE ExpandedTheme_formatVariants(_, _, _)

ExpandedTheme_formatFields(fs, depth, size) ==
  IF fs = <<>> THEN <<>>
  ELSE ExpandedTheme_formatField(Head(fs), depth, size)
         \o ExpandedTheme_formatFields(Tail(fs), depth, size)

(* ExpandedTheme.formatVariant *)
ExpandedTheme_formatVariant(variant, depth, size) ==
  <<Line(indent(depth, size), <<"- ", variant.discriminatorValue>>, "variant", Field0)>>
    \o ExpandedTheme_formatFields(variant.fields, depth + 1, size)

ExpandedTheme_formatVariants(vs, depth, size) ==
  IF vs = <<>> THEN <<>>
  ELSE ExpandedTheme_formatVariant(Head(vs), depth, size)
         \o ExpandedTheme_formatVariants(Tail(vs), depth, size)

(* ExpandedTheme.formatField, lines 114-164: what follows a regular field's details *)
ExpandedTheme_nested(field, depth, size) ==
  IF "objectFields" \in field.set
    THEN ExpandedTheme_formatFields(field.objectFields, depth + 1, size)
  ELSE IF field.type = "record" /\ IsObject(field.recordValueType)
          /\ "objectFields" \in Get(field.recordValueType).set
    THEN ExpandedTheme_formatFields(Get(field.recordValueType).objectFields, depth + 1, size)
  ELSE IF field.type = "array" /\ IsObject(field.arrayItemType)
    THEN IF "objectFields" \in Get(field.arrayItemType).set
           THEN ExpandedTheme_formatFields(Get(field.arrayItemType).objectFields, depth + 1, size)
         ELSE IF "unionVariants" \in Get(field.arrayItemType).set
                 /\ Get(field.arrayItemType).type = "discriminated-union"
           THEN ExpandedTheme_descriptionLine(Get(field.arrayItemType), indent(depth, size))
                  \o ExpandedTheme_allExamplesLine(Get(field.arrayItemType), indent(depth, size))
                  \o <<ExpandedTheme_discriminatorLine(Get(field.arrayItemType),
                                                       indent(depth, size))>>
                  \o ExpandedTheme_formatVariants(Get(field.arrayItemType).unionVariants,
                                                  depth + 2, size)
         ELSE IF "unionVariants" \in Get(field.arrayItemType).set
           THEN ExpandedTheme_formatVariants(Get(field.arrayItemType).unionVariants,
                                             depth + 1, size)
         ELSE <<>>
  ELSE <<>>

(* PromptSchema.ts (ExpandedTheme.formatField) *)
ExpandedTheme_formatField(field, depth, size) ==
  IF field.type = "discriminated-union" /\ "unionVariants" \in field.set
    THEN <<Line(indent(depth, size),
                <<"- ", field.name, ": array of objects">> \o getModifiersString(field),
                "field", field)>>
           \o ExpandedTheme_descriptionLine(field, indent(depth, size))
           \o ExpandedTheme_allExamplesLine(field, indent(depth, size))
           \o <<ExpandedTheme_discriminatorLine(field, indent(depth, size))>>
           \o ExpandedTheme_formatVariants(field.unionVariants, depth + 2, size)
    ELSE <<Line(indent(depth, size),
                <<"- ", field.name, ": ">> \o ExpandedTheme_getTypeRepresentation(field)
                  \o getModifiersString(field),
                "field", field)>>
           \o ExpandedTheme_criticalLine(field, indent(depth, size))
           \o ExpandedTheme_descriptionLine(field, indent(depth, size))
           \o ExpandedTheme_examplesLines(field, indent(depth, size))
           \o ExpandedTheme_nested(field, depth, size)

(* ExpandedTheme.format, lines 25-31: the document-level Examples section *)
ExpandedTheme_examplesSection(metadataExamples) ==
  IF Has(metadataExamples) /\ Len(Get(metadataExamples)) > 0
    THEN << Line(0, <<>>, "blank", Field0),
            Line(0, <<"## Examples">>, "heading", Field0),
            Line(0, <<>>, "blank", Field0),
            Line(0, <<"(fence)json">>, "detail", Field0),
            Line(0, JSONstringify(Get(metadataExamples)[1]), "detail", Field0),
            Line(0, <<"(fence)">>, "detail", Field0) >>
    ELSE <<>>

(* PromptSchema.ts (ExpandedTheme.format); "(fence)" stands for the three *)
(* backquotes of a code fence                                             *)
ExpandedTheme_format(modelFields, metadataExamples, size) ==
  trim(Heading \o ExpandedTheme_formatFields(modelFields, 0, size)
         \o ExpandedTheme_examplesSection(metadataExamples))

(* unnamed/part_006, CondensedTheme.getCompactPrimitive *)
getCompactPrimitive(type) ==
  CASE type = "string" -> "str"
    [] type = "number" -> "num"
    [] type = "integer" -> "int"
    [] type = "boolean" -> "bool"
    [] type = "object" -> "obj"
    [] OTHER -> type

(* t => typeof t === 'string' ? this.getCompactPrimitive(t) : t.type *)
CompactKindNames(entries) ==
  [i \in 1..Len(entries) |->
     IF entries[i].bare THEN getCompactPrimitive(entries[i].type) ELSE entries[i].type]

(* CondensedTheme.getCompactType, the enum branch: at most three values *)
CompactEnum(enumValues) ==
  IF Len(enumValues) = 1 THEN <<enumValues[1]>>
  ELSE JoinPieces(Pieces(SubSeq(enumValues, 1, IF Len(enumValues) < 3 THEN Len(enumValues) ELSE 3)),
                  "|")
         \o (IF Len(enumValues) > 3 THEN <<"...">> ELSE <<>>)

(* CondensedTheme.getCompactType, the array branch *)
CompactArray(field) ==
  IF IsString(field.arrayItemType)
    THEN <<getCompactPrimitive(Get(field.arrayItemType).type), "[]">>
  ELSE IF IsObject(field.arrayItemType)
    THEN LET itemField == Get(field.arrayItemType)
         IN  IF itemField.type = "enum" /\ "enumValues" \in itemField.set
               THEN <<"[">>
                      \o JoinPieces(Pieces(SubSeq(itemField.enumValues, 1,
                                      IF Len(itemField.enumValues) < 2
                                        THEN Len(itemField.enumValues) ELSE 2)), "|")
                      \o (IF Len(itemField.enumValues) > 2 THEN <<"...]">> ELSE <<"]">>)
               ELSE <<itemField.type, "[]">>
  ELSE <<"arr">>

(* unnamed/part_006, CondensedTheme.getCompactType *)
getCompactType(field) ==
  IF field.type = "string" THEN <<"str">>
  ELSE IF field.type = "number" THEN <<"num">>
  ELSE IF field.type = "integer" THEN <<"int">>
  ELSE IF field.type = "boolean" THEN <<"bool">>
  ELSE IF field.type = "object" THEN <<"obj">>
  ELSE IF field.type = "date" THEN <<"date">>
  ELSE IF field.type = "any" THEN <<"any">>
  ELSE IF field.type = "union" /\ "unionTypes" \in field.set
    THEN JoinPieces(Pieces(CompactKindNames(field.unionTypes)), "|")
  ELSE IF field.type = "tuple" /\ "tupleItems" \in field.set
    THEN <<"[">> \o JoinPieces(Pieces(CompactKindNames(field.tupleItems)), ",") \o <<"]">>
  ELSE IF field.type = "record" /\ field.recordKeyType /= "" /\ Has(field.recordValueType)
    THEN <<"Rec<", getCompactPrimitive(field.recordKeyType), ",",
           CompactKindNames(field.recordValueType)[1], ">">>
  ELSE IF field.type = "enum" /\ "enumValues" \in field.set
    THEN CompactEnum(field.enumValues)
  ELSE IF field.type = "array" THEN CompactArray(field)
  ELSE <<field.type>>

(* Mutant: only minimum, maximum and the two formats are critical *)
getCriticalConstraints_valueBoundsOnly(field) ==
  LET critical(c) ==
        IF c.type = "min" THEN <<(<<">=", String(c.value)>>)>>
        ELSE IF c.type = "max" THEN <<(<<"<=", String(c.value)>>)>>
        ELSE IF c.type = "format" /\ c.value = StrLit("email") THEN <<(<<"@">>)>>
        ELSE IF c.type = "format" /\ c.value = StrLit("uri") THEN <<(<<"url">>)>>
        ELSE <<>>
      all[i \in 0..Len(field.constraints)] ==
        IF i = 0 THEN <<>> ELSE all[i - 1] \o critical(field.constraints[i])
  IN  JoinPieces(all[Len(field.constraints)], ",")

(* unnamed/part_006, CondensedTheme.getCriticalConstraints; ">=" and "<=" *)
(* stand for the signs U+2265 and U+2264                                  *)
getCriticalConstraints(field) ==
  LET critical(c) ==
        IF c.type \in {"min", "minLength", "minItems"} THEN <<(<<">=", String(c.value)>>)>>
        ELSE IF c.type \in {"max", "maxLength", "maxItems"} THEN <<(<<"<=", String(c.value)>>)>>
        ELSE IF c.type = "format" /\ c.value = StrLit("email") THEN <<(<<"@">>)>>
        ELSE IF c.type = "format" /\ c.value = StrLit("uri") THEN <<(<<"url">>)>>
        ELSE <<>>
      all[i \in 0..Len(field.constraints)] ==
        IF i = 0 THEN <<>> ELSE all[i - 1] \o critical(field.constraints[i])
  IN  JoinPieces(all[Len(field.constraints)], ",")

RECURSIVE CondensedTheme_formatField(_, _, _)
RECURSIVE CondensedTheme_formatFields(_, _, _)
RECURSIVE CondensedTheme_formatVariants(_, _, _)

CondensedTheme_formatFields(fs, depth, size) ==
  IF fs = <<>> THEN <<>>
  ELSE CondensedTheme_formatField(Head(fs), depth, size)
         \o CondensedTheme_formatFields(Tail(fs), depth, size)

(* CondensedTheme.formatVariant *)
CondensedTheme_formatVariant(variant, depth, size) ==
  <<Line(indent(depth, size), <<"=", variant.discriminatorValue, ":">>, "variant", Field0)>>
    \o CondensedTheme_formatFields(variant.fields, depth + 1, size)

CondensedTheme_formatVariants(vs, depth, size) ==
  IF vs = <<>> THEN <<>>
  ELSE CondensedTheme_formatVariant(Head(vs), depth, size)
         \o CondensedTheme_formatVariants(Tail(vs), depth, size)

(* CondensedTheme.formatField, lines 57-69: what follows a regular field's line *)
CondensedTheme_nested(field, depth, size) ==
  IF "objectFields" \in field.set
    THEN CondensedTheme_formatFields(field.objectFields, depth + 1, size)
  ELSE IF field.type = "array" /\ IsObject(field.arrayItemType)
          /\ "objectFields" \in Get(field.arrayItemType).set
    THEN CondensedTheme_formatFields(Get(field.arrayItemType).objectFields, depth + 1, size)
  ELSE <<>>

(* the bracketed constraints of a line, when there are any *)
Bracketed(constraints) ==
  IF constraints /= <<>> THEN <<"[">> \o constraints \o <<"]">> ELSE <<>>

(* unnamed/part_006, CondensedTheme.formatField *)
CondensedTheme_formatField(field, depth, size) ==
  IF field.type = "discriminated-union" /\ "unionVariants" \in field.set
    THEN <<Line(indent(depth, size),
                <<field.name, ":obj[]", IF field.isRequired THEN "!" ELSE "?">>,
                "field", field),
           Line(indent(depth, size) + 2,
                <<IF field.discriminatorField /= "" THEN field.discriminatorField ELSE "type",
                  ":">>
                  \o JoinPieces(Pieces(DiscriminatorValues(field.unionVariants)), "|")
                  \o <<"!">>,
                "discriminator", Field0)>>
           \o CondensedTheme_formatVariants(field.unionVariants, depth + 2, size)
    ELSE <<Line(indent(depth, size),
                <<field.name, ":">> \o getCompactType(field)
                  \o <<IF field.isRequired THEN "!" ELSE "?">>
                  \o Bracketed(getCriticalConstraints(field)),
                "field", field)>>
           \o CondensedTheme_nested(field, depth, size)

(* unnamed/part_006, CondensedTheme.format *)
CondensedTheme_format(modelFields, size) ==
  trim(CondensedTheme_formatFields(modelFields, 0, size))

-----------------------------------------------------------------------------
(* The json theme.  A JSON value is a literal (the pieces of its text), an *)
(* array (its items) or an object (its members, in insertion order); the   *)
(* object built for a Field remembers that Field in `src`.                 *)

JLit(pieces) == [tag |-> "lit", text |-> pieces, items |-> <<>>, members |-> <<>>, src |-> Field0]

JStr(s) == JLit(<<"\"", s, "\"">>)

JText(pieces) == JLit(<<"\"">> \o pieces \o <<"\"">>)

JBool(b) == JLit(<<IF b THEN "true" ELSE "false">>)

JArr(items) == [tag |-> "arr", text |-> <<>>, items |-> items, members |-> <<>>, src |-> Field0]

JObj(members) == [tag |-> "obj", text |-> <<>>, items |-> <<>>, members |-> members, src |-> Field0]

Member(key, value) == [key |-> key, value |-> value]

(* obj[key] = value: a key already there keeps its place and takes the value *)
SetMember(members, key, value) ==
  IF \E i \in 1..Len(members) : members[i].key = key
    THEN [i \in 1..Len(members) |->
            IF members[i].key = key THEN Member(key, value) ELSE members[i]]
    ELSE Append(members, Member(key, value))

(* formatters/themes/json-theme.ts, JSONTheme.getJsonType *)
getJsonType(field) ==
  IF field.type = "enum"
    THEN (IF "enumValues" \in field.set /\ Len(field.enumValues) = 1 THEN "const" ELSE "enum")
  ELSE IF field.type = "discriminated-union" THEN "oneOf"
  ELSE CASE field.type = "date" -> "string"
         [] field.type = "record" -> "object"
         [] field.type = "tuple" -> "array"
         [] field.type = "union" -> "anyOf"
         [] OTHER -> field.type

(* fieldToJson, lines 53-59: obj.constraints[c.type] = c.value *)
RECURSIVE ConstraintMembers(_, _)
ConstraintMembers(constraints, members) ==
  IF constraints = <<>> THEN members
  ELSE ConstraintMembers(Tail(constraints),
         SetMember(members, Head(constraints).type,
                   IF Head(constraints).value.isNum
                     THEN JLit(<<String(Head(constraints).value)>>)
                     ELSE JStr(Head(constraints).value.s)))

(* obj.examples = field.examples *)
ExamplesToJson(examples) ==
  JArr([i \in 1..Len(examples) |->
          JObj(<<Member("value", JLit(JSONstringify(examples[i].value))),
                 Member("isCorrect", JBool(examples[i].isCorrect))>>)])

RECURSIVE fieldToJson(_)
RECURSIVE PropertyMembers(_, _, _)
RECURSIVE EntriesToJson(_)

(* typeof t === 'string' ? { type: t } : this.fieldToJson(t) *)
EntryToJson(entry) ==
  IF entry.bare THEN JObj(<<Member("type", JStr(entry.type))>>) ELSE fieldToJson(entry)

EntriesToJson(entries) ==
  IF entries = <<>> THEN <<>>
  ELSE <<EntryToJson(Head(entries))>> \o EntriesToJson(Tail(entries))

(* properties[f.name] = this.fieldToJson(f) for every f but the one named skip *)
PropertyMembers(fs, skip, members) ==
  IF fs = <<>> THEN members
  ELSE IF skip /= "" /\ Head(fs).name = skip THEN PropertyMembers(Tail(fs), skip, members)
  ELSE PropertyMembers(Tail(fs), skip,
                       SetMember(members, Head(fs).name, fieldToJson(Head(fs))))

(* The Field of a variant that the member { const: discriminatorValue }   *)
(* stands for: the one the loop of variantToJson skips                     *)
TagField(variant, discriminatorField) ==
  IF \E i \in 1..Len(variant.fields) : variant.fields[i].name = discriminatorField
    THEN SelectSeq(variant.fields, LAMBDA f : f.name = discriminatorField)[1]
    ELSE Field0

(* Mutant: the loop does not skip the discriminator field, and required is *)
(* the plain list of the required names                                    *)
variantToJson_keepsTag(variant, discriminatorField) ==
  JObj(<< Member("type", JStr("object")),
          Member("properties", JObj(PropertyMembers(variant.fields, "", <<>>))),
          Member("required",
                 JArr([i \in 1..Len(SelectSeq(variant.fields, LAMBDA f : f.isRequired)) |->
                         JStr(SelectSeq(variant.fields, LAMBDA f : f.isRequired)[i].name)]))
       >>)

(* formatters/themes/json-theme.ts, JSONTheme.variantToJson *)
variantToJson(variant, discriminatorField) ==
  JObj(<< Member("type", JStr("object")),
          Member("properties",
                 JObj(PropertyMembers(variant.fields, discriminatorField,
                        IF discriminatorField /= ""
                          THEN <<Member(discriminatorField,
                                        [JObj(<<Member("const",
                                                       JStr(variant.discriminatorValue))>>)
                                           EXCEPT !.src = TagField(variant, discriminatorField)])>>
                          ELSE <<>>))),
          Member("required",
                 JArr((IF discriminatorField /= "" THEN <<JStr(discriminatorField)>> ELSE <<>>)
                      \o [i \in 1..Len(SelectSeq(variant.fields,
                                 LAMBDA f : f.isRequired /\ f.name /= discriminatorField)) |->
                            JStr(SelectSeq(variant.fields,
                                   LAMBDA f : f.isRequired /\ f.name /= discriminatorField)[i].name)]))
       >>)

(* fieldToJson, lines 103-109: oneOf and discriminator *)
VariantsMembers(field) ==
  IF "unionVariants" \in field.set
    THEN <<Member("oneOf",
                  JArr([i \in 1..Len(field.unionVariants) |->
                          variantToJson(field.unionVariants[i], field.discriminatorField)]))>>
           \o (IF field.discriminatorField /= ""
                 THEN <<Member("discriminator", JStr(field.discriminatorField))>>
                 ELSE <<>>)
    ELSE <<>>

(* fieldToJson, lines 79-101: items and additionalProperties *)
ItemsMembers(field) ==
     (IF field.type = "array" /\ Has(field.arrayItemType)
        THEN <<Member("items", EntryToJson(Get(field.arrayItemType)))>>
        ELSE <<>>)
  \o (IF field.type = "tuple" /\ "tupleItems" \in field.set
        THEN <<Member("items", JArr(EntriesToJson(field.tupleItems)))>>
        ELSE <<>>)
  \o (IF field.type = "record" /\ Has(field.recordValueType)
        THEN <<Member("additionalProperties", EntryToJson(Get(field.recordValueType)))>>
        ELSE <<>>)

(* fieldToJson, lines 37-69: the members before the nested ones *)
OwnMembers(field) ==
     << Member("name", JStr(field.name)),
        Member("type", JStr(getJsonType(field))),
        Member("required", JBool(field.isRequired)) >>
  \o (IF field.isNullable THEN <<Member("nullable", JBool(TRUE))>> ELSE <<>>)
  \o (IF HasDescription(field)
        THEN <<Member("description", JText(Get(field.description)))>> ELSE <<>>)
  \o (IF Len(field.constraints) > 0
        THEN <<Member("constraints", JObj(ConstraintMembers(field.constraints, <<>>)))>>
        ELSE <<>>)
  \o (IF "enumValues" \in field.set
        THEN <<Member("enum", JArr([i \in 1..Len(field.enumValues) |->
                                      JStr(field.enumValues[i])]))>>
        ELSE <<>>)
  \o (IF "examples" \in field.set
        THEN <<Member("examples", ExamplesToJson(field.examples))>> ELSE <<>>)

(* formatters/themes/json-theme.ts, JSONTheme.fieldToJson *)
fieldToJson(field) ==
  [ JObj(   OwnMembers(field)
         \o (IF "objectFields" \in field.set
               THEN <<Member("properties",
                             JObj(PropertyMembers(field.objectFields, "", <<>>)))>>
               ELSE <<>>)
         \o ItemsMembers(field)
         \o VariantsMembers(field)
         \o (IF "unionTypes" \in field.set
               THEN <<Member("anyOf", JArr(EntriesToJson(field.unionTypes)))>>
               ELSE <<>>)
         \o (IF "defaultValue" \in field.set
               THEN <<Member("default", JLit(JSONstringify(Get(field.defaultValue))))>>
               ELSE <<>>))
    EXCEPT !.src = field ]

(* JSONTheme.modelToJson; metadata keeps its defined keys only *)
modelToJson(modelFields, metadata) ==
  JObj(<<Member("schema",
           JObj(<< Member("fields",
                          JArr([i \in 1..Len(modelFields) |-> fieldToJson(modelFields[i])])),
                   Member("metadata",
                          JObj(   (IF Has(metadata.description)
                                     THEN <<Member("description",
                                                   JStr(Get(metadata.description)))>>
                                     ELSE <<>>)
                               \o (IF Has(metadata.examples)
                                     THEN <<Member("examples",
                                              JArr([i \in 1..Len(Get(metadata.examples)) |->
                                                      JLit(JSONstringify(
                                                             Get(metadata.examples)[i]))]))>>
                                     ELSE <<>>))) >>))>>)

(* JSON.stringify(value, null, size), size > 0: one line per literal, per  *)
(* opening and per closing bracket, the members and items one level in     *)

AppendToLast(lines, piece) ==
  [i \in 1..Len(lines) |->
     IF i = Len(lines) THEN [lines[i] EXCEPT !.text = @ \o <<piece>>] ELSE lines[i]]

PrependToFirst(lines, pieces) ==
  [i \in 1..Len(lines) |-> IF i = 1 THEN [lines[i] EXCEPT !.text = pieces \o @] ELSE lines[i]]

RECURSIVE ValueLines(_, _, _)
RECURSIVE ItemLines(_, _, _)
RECURSIVE MemberLines(_, _, _)

ItemLines(items, level, size) ==
  IF items = <<>> THEN <<>>
  ELSE (IF Len(items) > 1
          THEN AppendToLast(ValueLines(Head(items), level, size), ",")
          ELSE ValueLines(Head(items), level, size))
         \o ItemLines(Tail(items), level, size)

MemberLines(members, level, size) ==
  IF members = <<>> THEN <<>>
  ELSE PrependToFirst(
         (IF Len(members) > 1
            THEN AppendToLast(ValueLines(Head(members).value, level, size), ",")
            ELSE ValueLines(Head(members).value, level, size)),
         <<"\"", Head(members).key, "\": ">>)
         \o MemberLines(Tail(members), level, size)

ValueLines(v, level, size) ==
  IF v.tag = "lit" THEN <<Line(level * size, v.text, "detail", Field0)>>
  ELSE IF v.tag = "arr"
    THEN IF v.items = <<>> THEN <<Line(level * size, <<"[]">>, "detail", Field0)>>
         ELSE <<Line(level * size, <<"[">>, "detail", Field0)>>
                \o ItemLines(v.items, level + 1, size)
                \o <<Line(level * size, <<"]">>, "detail", Field0)>>
  ELSE IF v.members = <<>>
    THEN <<Line(level * size, <<"{}">>, IF v.src = Field0 THEN "detail" ELSE "field", v.src)>>
  ELSE <<Line(level * size, <<"{">>, IF v.src = Field0 THEN "detail" ELSE "field", v.src)>>
         \o MemberLines(v.members, level + 1, size)
         \o <<Line(level * size, <<"}">>, "detail", Field0)>>

(* JSON.stringify(value, null, 0): the same text without line breaks,     *)
(* indentation or the space after a colon; the one line stands for all    *)
(* the objects in it                                                      *)
RECURSIVE CompactPieces(_)
CompactPieces(lines) ==
  IF lines = <<>> THEN <<>>
  ELSE [i \in 1..Len(Head(lines).text) |->
          IF Head(lines).text[i] = "\": " THEN "\":" ELSE Head(lines).text[i]]
         \o CompactPieces(Tail(lines))

JSON_stringify(v, size) ==
  IF size > 0 THEN ValueLines(v, 0, size)
  ELSE <<Line(0, CompactPieces(ValueLines(v, 0, 1)), "detail", Field0)>>

(* formatters/themes/json-theme.ts, JSONTheme.format *)
JSONTheme_format(modelFields, metadata, size) ==
  JSON_stringify(modelToJson(modelFields, metadata), size)

-----------------------------------------------------------------------------
(* formatters/index.ts: ThemeRegistry, a Map from name to theme in        *)
(* insertion order; a theme is its name and the class that renders it     *)

Theme(name, class) == [name |-> name, class |-> class]

(* ThemeRegistry.register: themes.set(theme.name, theme) *)
register(registry, theme) ==
  IF \E i \in 1..Len(registry) : registry[i].name = theme.name
    THEN [i \in 1..Len(registry) |->
            IF registry[i].name = theme.name THEN theme ELSE registry[i]]
    ELSE Append(registry, theme)

(* ThemeRegistry constructor: the four default themes, in this order *)
DefaultThemes ==
  register(register(register(register(<<>>,
    Theme("standard", "StandardTheme")),
    Theme("expanded", "ExpandedTheme")),
    Theme("condensed", "CondensedTheme")),
    Theme("json", "JSONTheme"))

(* ThemeRegistry.list *)
list(registry) == [i \in 1..Len(registry) |-> registry[i].name]

(* ThemeRegistry.get: the theme of that name, or undefined *)
get(registry, name) == FirstOf(SelectSeq(registry, LAMBDA th : th.name = name))

(* model.metadata of extractToModel.ts, lines 19-23 *)
Metadata(s) == [description |-> s.description, examples |-> s.examples]

(* theme.format(model, options), by the class of the theme *)
ThemeFormat(class, modelFields, metadata, size) ==
  CASE class = "StandardTheme" -> StandardTheme_format(modelFields, size)
    [] class = "ExpandedTheme" -> ExpandedTheme_format(modelFields, metadata.examples, size)
    [] class = "CondensedTheme" -> CondensedTheme_format(modelFields, size)
    [] class = "JSONTheme" -> JSONTheme_format(modelFields, metadata, size)

Returned(lines) == [threw |-> FALSE, text |-> lines, message |-> <<>>]

Thrown(pieces) == [threw |-> TRUE, text |-> <<>>, message |-> pieces]

(* formatters/index.ts, ThemeRegistry.format *)
ThemeRegistry_format(registry, modelFields, metadata, themeName, size) ==
  IF ~Has(get(registry, themeName))
    THEN Thrown(<<"Theme '", themeName, "' not found. Available: ">> \o Join(list(registry)))
    ELSE Returned(ThemeFormat(Get(get(registry, themeName)).class, modelFields, metadata, size))

(* formatModel.ts: DEFALUT_OPTIONS = { style: 'standard', indentSize: 2 } *)
DefaultIndentSize == 2

ThemeFormatOptions(style, indentSize) == [style |-> style, indentSize |-> indentSize]

(* formatModel.ts: themeName = opts.style || 'standard' over the merged options *)
ThemeNameOf(opts) ==
  IF Has(opts.style) /\ Get(opts.style) /= "" THEN Get(opts.style) ELSE "standard"

(* formatters/formatModel.ts *)
formatModel(registry, modelFields, metadata, opts) ==
  ThemeRegistry_format(registry, modelFields, metadata, ThemeNameOf(opts),
                       IF Has(opts.indentSize) THEN Get(opts.indentSize) ELSE DefaultIndentSize)

-----------------------------------------------------------------------------
(* PromptSchema.ts, index.ts and the adapters.  The schema a caller passes *)
(* is a value of any kind: null, or an object with some of the marker keys *)
(* the adapters look for ('_def' with a typeName, '_zod', and the keys of  *)
(* a JSON Schema, here 'type').  A JSON Schema object is its own document; *)
(* a Zod schema is known by the document the Zod library converts it to,   *)
(* or by the library throwing on it.                                       *)

Input(isNull, markers, convertible, json) ==
  [isNull |-> isNull, markers |-> markers, convertible |-> convertible, json |-> json]

NoInput == Input(TRUE, {}, FALSE, Node0)

(* An adapter: its name, what its canHandle looks for, how its             *)
(* toJsonSchema converts, and the document a constant conversion returns   *)
Adapter(name, canHandle, toJsonSchema, document) ==
  [name |-> name, canHandle |-> canHandle, toJsonSchema |-> toJsonSchema, document |-> document]

(* adapters/zod-v3.ts *)
zodV3Adapter == Adapter("zod-v3", "zod-v3", "library", Node0)

(* adapters/zod-v4.ts *)
zodV4Adapter == Adapter("zod-v4", "zod-v4", "library", Node0)

(* adapters/json-schema.ts *)
jsonSchemaAdapter == Adapter("json-schema", "json-schema", "passthrough", Node0)

(* adapter.canHandle(schema): "true", "false" or "threw" *)
canHandle(adapter, s) ==
  CASE adapter.canHandle = "always" -> "true"
    [] adapter.canHandle = "never" -> "false"
    [] adapter.canHandle = "throws" -> "threw"
    [] adapter.canHandle = "zod-v3" ->
         IF ~s.isNull /\ "_def" \in s.markers /\ "_zod" \notin s.markers THEN "true" ELSE "false"
    [] adapter.canHandle = "zod-v4" ->
         IF ~s.isNull /\ "_zod" \in s.markers THEN "true" ELSE "false"
    [] adapter.canHandle = "json-schema" ->
         IF ~s.isNull /\ "type" \in s.markers THEN "true" ELSE "false"

(* Mutant: an error of canHandle ends the search with that adapter chosen *)
Accepts_throwAccepted(adapter, s) == canHandle(adapter, s) /= "false"

(* toPrompt, lines 28-34: try { return a.canHandle(schema) } catch { return false } *)
Accepts(adapter, s) == canHandle(adapter, s) = "true"

(* adapter.toJsonSchema(schema) throws: the library on a schema it cannot convert *)
throwsToJsonSchema(adapter, s) == adapter.toJsonSchema = "library" /\ ~s.convertible

(* adapter.toJsonSchema(schema) *)
toJsonSchema(adapter, s) ==
  IF adapter.toJsonSchema = "constant" THEN adapter.document ELSE s.json

(* PromptOptions: theme, maxDepth and safe, each given or not *)
PromptOptions(theme, maxDepth, safe) == [theme |-> theme, maxDepth |-> maxDepth, safe |-> safe]

NoPrompt == PromptOptions(None, None, None)

(* formatWithModel: extractToModel(schema, { maxDepth: options.maxDepth }) *)
ExtractOptionsOf(opts) ==
  IF Has(opts.maxDepth) THEN CallerOptions("number", Get(opts.maxDepth), FALSE)
  ELSE CallerOptions("undefined", 0, FALSE)

(* formatWithModel: style = options.theme || 'standard' *)
StyleOf(opts) ==
  IF Has(opts.theme) /\ Get(opts.theme) /= "" THEN Get(opts.theme) ELSE "standard"

(* PromptSchema.ts, PromptSchema.formatWithModel *)
formatWithModel(registry, s, opts) ==
  IF throwsToModel(s, ExtractOptionsOf(opts)) THEN Thrown(<<"TypeError">>)
  ELSE formatModel(registry, extractToModel(s, ExtractOptionsOf(opts)), Metadata(s),
                   ThemeFormatOptions(Some(StyleOf(opts)), None))

(* Mutant: registerAdapter pushes the adapter at the end of the list *)
registerAdapter_push(list0, adapter) == Append(list0, adapter)

(* PromptSchema.ts, PromptSchema.registerAdapter: this.adapters.unshift(adapter) *)
registerAdapter(list0, adapter) == <<adapter>> \o list0

(* PromptSchema.ts, PromptSchema.getAdapters *)
getAdapters(list0) == [i \in 1..Len(list0) |-> list0[i].name]

(* toPrompt, lines 28-34: this.adapters.find(...), the first adapter that accepts *)
FindAdapter(list0, s) == FirstOf(SelectSeq(list0, LAMBDA a : Accepts(a, s)))

(* PromptSchema.ts, PromptSchema.toPrompt *)
toPrompt(registry, list0, s, opts) ==
  IF ~Has(FindAdapter(list0, s))
    THEN Thrown(<<"No adapter found for schema. Registered adapters: ">>
                  \o Join(getAdapters(list0)))
  ELSE IF throwsToJsonSchema(Get(FindAdapter(list0, s)), s) THEN Thrown(<<"conversion error">>)
  ELSE formatWithModel(registry, toJsonSchema(Get(FindAdapter(list0, s)), s), opts)

(* getPrompts, lines 11-17: a new PromptSchema with the one Zod adapter *)
FreshAdapters(s) ==
  IF ~s.isNull /\ "_zod" \in s.markers
    THEN registerAdapter(<<>>, zodV4Adapter)
    ELSE registerAdapter(<<>>, zodV3Adapter)

(* '## Schema\n\nProvide valid JSON matching the expected structure.' *)
SafeText ==
  Heading \o <<Line(0, <<"Provide valid JSON matching the expected structure.">>,
                    "detail", Field0)>>

(* Mutant: the catch block returns the fallback whatever the safe flag *)
Caught_alwaysSafe(opts, error) == Returned(SafeText)

(* getPrompts, lines 21-27: the catch block *)
Caught(opts, error) ==
  IF opts.safe = Some(TRUE) THEN Returned(SafeText) ELSE error

(* try { return converter.toPrompt(schema, options) } catch (error) { ... } *)
TryToPrompt(opts, result) == IF result.threw THEN Caught(opts, result) ELSE result

(* index.ts, getPrompts *)
getPrompts(registry, s, opts) ==
  TryToPrompt(opts, toPrompt(registry, FreshAdapters(s), s, opts))

-----------------------------------------------------------------------------
(* The input documents of the checked calls *)

StringLeaf == T("string")

ObjectLeaf == [T("object") EXCEPT !.properties = Some(<<Prop("x", T("string"))>>)]

ConstNode(v) == [Node0 EXCEPT !.const = Some(StrLit(v))]

Ctors == {"obj", "arr", "tup", "rec", "uni", "dis", "nul"}

(* One more level of nesting around x *)
Wrap(c, x) ==
  CASE c = "obj" -> [T("object") EXCEPT !.properties = Some(<<Prop("p", x)>>),
                                        !.required = Some(<<"p">>)]
    [] c = "arr" -> [T("array") EXCEPT !.itemsKind = "single", !.items = <<x>>]
    [] c = "tup" -> [T("array") EXCEPT !.itemsKind = "list", !.items = <<x, T("number")>>]
    [] c = "rec" -> [T("object") EXCEPT !.additionalProperties = Some(x)]
    [] c = "uni" -> [Node0 EXCEPT !.oneOf = Some(<<x, T("number")>>)]
    [] c = "dis" -> [Node0 EXCEPT !.oneOf =
                       Some(<<[T("object") EXCEPT !.properties =
                                 Some(<<Prop("kind", ConstNode("a")), Prop("p", x)>>)]>>)]
    [] c = "nul" -> [Node0 EXCEPT !.anyOf = Some(<<x, T("null")>>)]

(* Documents nested at most n levels deep over the two leaves *)
RECURSIVE ChainDocs(_)
ChainDocs(n) ==
  IF n = 0 THEN {StringLeaf, ObjectLeaf}
  ELSE LET sub == ChainDocs(n - 1)
       IN  sub \cup {Wrap(c, x) : c \in Ctors, x \in sub}

(* Object documents with up to MaxProps properties in document order, each *)
(* a string, a const (tag) or a discriminated union, and any required list *)
PropNames == <<"a", "b", "c", "d", "e">>

PropKinds == {"str", "tag", "dis"}

PropSchema(k) ==
  CASE k = "str" -> T("string")
    [] k = "tag" -> ConstNode("t")
    [] k = "dis" -> Wrap("dis", StringLeaf)

ObjectDoc(kinds, req) ==
  [T("object") EXCEPT
     !.properties = Some([i \in 1..Len(kinds) |-> Prop(PropNames[i], PropSchema(kinds[i]))]),
     !.required = Some(SelectSeq(SubSeq(PropNames, 1, MaxProps), LAMBDA nm : nm \in req))]

KindSeqs == UNION {[1..n -> PropKinds] : n \in 0..MaxProps}

ObjectDocs ==
  {ObjectDoc(ks, req) : ks \in KindSeqs, req \in SUBSET SeqToSet(SubSeq(PropNames, 1, MaxProps))}

NestedObjectDocs ==
  {[T("object") EXCEPT !.properties = Some(<<Prop("w", d)>>)] : d \in ObjectDocs}

(* Flat nodes: up to MaxKeys of the keys the classifier reads, and a type *)
FlatKeys ==
  {"enum", "const", "oneOf", "anyOf", "allOf", "additionalProperties", "properties",
   "items", "itemsList", "format"}

TypeChoice(s, t) ==
  CASE t = "absent" -> s
    [] t = "pair" -> [s EXCEPT !.typeKind = "array", !.type = <<"string", "number">>]
    [] t = "single" -> [s EXCEPT !.typeKind = "array", !.type = <<"string">>]
    [] OTHER -> [s EXCEPT !.typeKind = "string", !.type = <<t>>]

TypeChoices ==
  {"absent", "pair", "single", "string", "number", "integer", "boolean", "object",
   "array", "null", "file"}

WithKey(s, k) ==
  CASE k = "enum" -> [s EXCEPT !.enum = Some(<<StrLit("x"), NumLit(1)>>)]
    [] k = "const" -> [s EXCEPT !.const = Some(NumLit(2))]
    [] k = "oneOf" -> [s EXCEPT !.oneOf = Some(<<T("string"), T("number")>>)]
    [] k = "anyOf" -> [s EXCEPT !.anyOf = Some(<<T("string"), T("boolean")>>)]
    [] k = "allOf" -> [s EXCEPT !.allOf = Some(<<ObjectLeaf>>)]
    [] k = "additionalProperties" -> [s EXCEPT !.additionalProperties = Some(T("number"))]
    [] k = "properties" -> [s EXCEPT !.properties = Some(<<Prop("x", T("string"))>>)]
    [] k = "items" -> [s EXCEPT !.itemsKind = "single", !.items = <<T("string")>>]
    [] k = "itemsList" -> [s EXCEPT !.itemsKind = "list", !.items = <<T("string")>>]
    [] k = "format" -> [s EXCEPT !.format = Some("date-time")]

RECURSIVE WithKeys(_, _)
WithKeys(s, ks) ==
  IF ks = {} THEN s
  ELSE LET k == CHOOSE x \in ks : TRUE
       IN  WithKeys(WithKey(s, k), ks \ {k})

KeySets ==
  {ks \in SUBSET FlatKeys : Cardinality(ks) <= MaxKeys /\ ~({"items", "itemsList"} \subseteq ks)}

FlatNodes == {WithKeys(TypeChoice(Node0, t), ks) : t \in TypeChoices, ks \in KeySets}

(* Nullable encodings: anyOf lists of up to MaxBranches branches, and type arrays *)
NotBranch == [Node0 EXCEPT !.not = Some(Node0)]

Branches ==
  { T("null"), T("string"), T("number"),
    [Node0 EXCEPT !.anyOf = Some(<<NotBranch, T("integer")>>)],
    [Node0 EXCEPT !.anyOf = Some(<<NotBranch>>)] }

BranchSeqs == UNION {[1..n -> Branches] : n \in 0..MaxBranches}

TypeSeqs == UNION {[1..n -> {"null", "string", "number"}] : n \in 1..MaxBranches}

NullableDocs ==
  {[Node0 EXCEPT !.anyOf = Some(bs)] : bs \in BranchSeqs}
    \cup {TArr(ts) : ts \in TypeSeqs}
    \cup {[TArr(<<"string", "null">>) EXCEPT !.anyOf = Some(bs)] :
            bs \in {<<T("string"), T("number")>>, <<T("null"), T("null")>>}}

(* Unions over branches that carry, or lack, the candidate discriminators *)
VariantKinds == {"ta", "tb", "ka", "tk", "tn", "da", "str"}

VariantSchema(k) ==
  CASE k = "ta" -> [T("object") EXCEPT
                      !.properties = Some(<<Prop("v", T("string")),
                                            Prop("type", ConstNode("a"))>>),
                      !.required = Some(<<"type">>)]
    [] k = "tb" -> [T("object") EXCEPT
                      !.properties = Some(<<Prop("type", [Node0 EXCEPT !.const = Some(NumLit(2))])>>)]
    [] k = "ka" -> [T("object") EXCEPT
                      !.properties = Some(<<Prop("kind", ConstNode("a"))>>)]
    [] k = "tk" -> [T("object") EXCEPT
                      !.properties = Some(<<Prop("type", ConstNode("a")),
                                            Prop("kind", ConstNode("b"))>>)]
    [] k = "tn" -> [T("object") EXCEPT
                      !.properties = Some(<<Prop("type", T("string")),
                                            Prop("kind", ConstNode("k"))>>)]
    [] k = "da" -> [T("object") EXCEPT
                      !.properties = Some(<<Prop("discriminator", ConstNode("d"))>>)]
    [] k = "str" -> T("string")

VariantSeqs == UNION {[1..n -> VariantKinds] : n \in 0..MaxVariants}

UnionDocs ==
  {[Node0 EXCEPT !.oneOf = Some([i \in 1..Len(ks) |-> VariantSchema(ks[i])])] : ks \in VariantSeqs}
    \cup {[Node0 EXCEPT !.anyOf = Some([i \in 1..Len(ks) |-> VariantSchema(ks[i])])] :
            ks \in VariantSeqs}

(* Malformed documents *)
MalformedLeaves ==
  { NullNode,
    [T("string") EXCEPT !.bad = {"enum"}],
    [Node0 EXCEPT !.bad = {"oneOf"}],
    [Node0 EXCEPT !.bad = {"anyOf"}],
    [ObjectLeaf EXCEPT !.bad = {"required"}],
    [Node0 EXCEPT !.oneOf = Some(<<T("string"), NullNode>>)],
    [Node0 EXCEPT !.anyOf = Some(<<T("null"), NullNode>>)] }

MalformedDocs ==
  (MalformedLeaves \ {NullNode})
    \cup {Wrap(c, x) : c \in Ctors, x \in MalformedLeaves}
    \cup {Wrap("obj", Wrap(c, x)) : c \in Ctors, x \in MalformedLeaves}

(* What a union branch, an array item, a tuple slot or a record value may  *)
(* be: typed string, null or with an unknown type name, an enum with or    *)
(* without a type, a tagged object                                         *)
Alternatives ==
  { T("string"), T("null"), T("file"),
    [T("string") EXCEPT !.enum = Some(<<StrLit("a"), StrLit("b")>>)],
    [Node0 EXCEPT !.enum = Some(<<StrLit("c")>>)],
    VariantSchema("ta") }

AlternativeSeqs == UNION {[1..n -> Alternatives] : n \in 0..MaxVariants}

UnionNodes ==
  {[Node0 EXCEPT !.oneOf = Some(bs)] : bs \in AlternativeSeqs}
    \cup {[Node0 EXCEPT !.anyOf = Some(bs)] : bs \in AlternativeSeqs}

(* Arrays of unions, and arrays, tuples, records and object properties of  *)
(* each alternative                                                        *)
AlternativeDocs ==
  {Wrap("arr", u) : u \in UnionNodes}
    \cup {Wrap(c, x) : c \in {"arr", "tup", "rec", "uni", "obj"}, x \in Alternatives}
    \cup {Wrap("obj", u) : u \in UnionNodes}

WellFormedDocs == ChainDocs(MaxNest) \cup ObjectDocs \cup NestedObjectDocs
                    \cup FlatNodes \cup NullableDocs \cup UnionDocs \cup AlternativeDocs

Documents == WellFormedDocs \cup MalformedDocs

OptionsSet ==
  {CallerOptions("absent", 0, FALSE), CallerOptions("undefined", 0, FALSE)}
    \cup {CallerOptions("number", n, FALSE) : n \in 0..MaxDepthBound}

-----------------------------------------------------------------------------
(* The calls: each action is one call of an exported function on an input *)

NoUnwrap == [actualSchema |-> Node0, isNullable |-> FALSE]

NoOptions == CallerOptions("absent", 0, FALSE)

NoRequest == ThemeFormatOptions(None, None)

Init ==
  /\ pc = "idle"
  /\ schema = Node0
  /\ options = NoOptions
  /\ outcome = "none"
  /\ fields = <<>>
  /\ kind = ""
  /\ unwrapped = NoUnwrap
  /\ OPTIONS = DefaultOptions
  /\ memo = {}
  /\ themes = DefaultThemes
  /\ request = NoRequest
  /\ text = <<>>
  /\ message = <<>>
  /\ adapters = <<>>
  /\ registered = <<>>
  /\ input = NoInput
  /\ prompt = NoPrompt
  /\ used = ""

ExtractToModel ==
  /\ pc = "idle"
  /\ \E s \in Documents, o \in OptionsSet :
       /\ schema' = s
       /\ options' = o
       /\ IF throwsToModel(s, o)
            THEN outcome' = "threw" /\ fields' = <<>>
            ELSE outcome' = "returned" /\ fields' = extractToModel(s, o)
  /\ pc' = "extractToModel"
  /\ UNCHANGED <<kind, unwrapped>>
  /\ UNCHANGED callVars
  /\ UNCHANGED renderVars
  /\ UNCHANGED adapterVars

DetectFieldType ==
  /\ pc = "idle"
  /\ \E s \in Documents :
       /\ schema' = s
       /\ kind' = detectFieldType(s)
  /\ outcome' = "returned"
  /\ pc' = "detectFieldType"
  /\ UNCHANGED <<options, fields, unwrapped>>
  /\ UNCHANGED callVars
  /\ UNCHANGED renderVars
  /\ UNCHANGED adapterVars

UnwrapNullable ==
  /\ pc = "idle"
  /\ \E s \in Documents :
       /\ schema' = s
       /\ IF throwsUnwrap(s)
            THEN outcome' = "threw" /\ unwrapped' = NoUnwrap
            ELSE outcome' = "returned" /\ unwrapped' = unwrapNullable(s)
  /\ pc' = "unwrapNullable"
  /\ UNCHANGED <<options, fields, kind>>
  /\ UNCHANGED callVars
  /\ UNCHANGED renderVars
  /\ UNCHANGED adapterVars

Return ==
  /\ pc /= "idle"
  /\ pc' = "idle"
  /\ schema' = Node0
  /\ options' = NoOptions
  /\ outcome' = "none"
  /\ fields' = <<>>
  /\ kind' = ""
  /\ unwrapped' = NoUnwrap
  /\ UNCHANGED callVars
  /\ UNCHANGED renderVars
  /\ UNCHANGED adapterVars

Next == ExtractToModel \/ DetectFieldType \/ UnwrapNullable \/ Return

Spec == Init /\ [][Next]_vars

-----------------------------------------------------------------------------
(* Repeated calls on one document: the caller keeps a document and calls   *)
(* extractToModel and unwrapNullable on it any number of times, in any     *)
(* order; memo remembers the first result of each options value            *)

CallDocs ==
  ChainDocs(2)
    \cup {TArr(<<"string", "null">>), Wrap("obj", TArr(<<"string", "null">>)),
          Wrap("obj", NullNode)}

CallOptionsSet ==
  {CallerOptions("absent", 0, FALSE)}
    \cup {CallerOptions("number", n, FALSE) : n \in 1..MaxDepthBound}

(* The caller takes a document *)
LoadDocument ==
  /\ pc = "idle"
  /\ \E s \in CallDocs : schema' = s
  /\ pc' = "loaded"
  /\ memo' = {}
  /\ options' = NoOptions
  /\ outcome' = "none"
  /\ fields' = <<>>
  /\ unwrapped' = NoUnwrap
  /\ UNCHANGED <<kind, OPTIONS>>
  /\ UNCHANGED renderVars
  /\ UNCHANGED adapterVars

(* The memo after a call with options o that ended as (out, fs) *)
Remember(o, out, fs) ==
  IF \E m \in memo : m.options = o
    THEN {IF m.options = o THEN [m EXCEPT !.calls = 2] ELSE m : m \in memo}
    ELSE memo \cup {[options |-> o, outcome |-> out, fields |-> fs, calls |-> 1]}

(* extractToModel(document, o): reads the document and OPTIONS, writes neither *)
CallExtractToModel ==
  /\ pc /= "idle"
  /\ \E o \in CallOptionsSet :
       LET opts == Spread(OPTIONS, o)
           threw == throwsRootFields(schema, opts)
           out == IF threw THEN "threw" ELSE "returned"
           fs == IF threw THEN <<>> ELSE RootFields(schema, opts)
       IN  /\ options' = o
           /\ outcome' = out
           /\ fields' = fs
           /\ memo' = Remember(o, out, fs)
           /\ OPTIONS' = SpreadSource(OPTIONS, o)
  /\ pc' = "extractToModel"
  /\ UNCHANGED <<schema, kind, unwrapped>>
  /\ UNCHANGED renderVars
  /\ UNCHANGED adapterVars

(* unwrapNullable(document): returns the document, a branch of it, or a    *)
(* copy with another type; the document stays as it was                    *)
CallUnwrapNullable ==
  /\ pc /= "idle"
  /\ ~throwsUnwrap(schema)
  /\ unwrapped' = unwrapNullable(schema)
  /\ pc' = "unwrapNullable"
  /\ UNCHANGED <<schema, options, outcome, fields, kind, OPTIONS, memo>>
  /\ UNCHANGED renderVars
  /\ UNCHANGED adapterVars

NextCalls == LoadDocument \/ CallExtractToModel \/ CallUnwrapNullable

SpecCalls == Init /\ [][NextCalls]_vars

-----------------------------------------------------------------------------
(* Rendering: a caller extracts the model of a document, may register      *)
(* themes in defaultRegistry, and calls formatModel on the model; the     *)
(* registry outlives the model, so renders and registrations interleave    *)

(* Properties "s" with up to two of the constraint keys, nullable or not,  *)
(* required or not                                                         *)
ConstraintKeys ==
  {"minLength", "maxLength", "pattern", "format", "minimum", "maximum", "minItems", "maxItems",
   "uri", "uuid"}

WithConstraint(s, k) ==
  CASE k = "minLength" -> [s EXCEPT !.minLength = Some(1)]
    [] k = "maxLength" -> [s EXCEPT !.maxLength = Some(3)]
    [] k = "pattern" -> [s EXCEPT !.pattern = Some("^a")]
    [] k = "format" -> [s EXCEPT !.format = Some("email")]
    [] k = "minimum" -> [s EXCEPT !.minimum = Some(0)]
    [] k = "maximum" -> [s EXCEPT !.maximum = Some(9)]
    [] k = "minItems" -> [s EXCEPT !.minItems = Some(2)]
    [] k = "maxItems" -> [s EXCEPT !.maxItems = Some(5)]
    [] k = "uri" -> [s EXCEPT !.format = Some("uri")]
    [] k = "uuid" -> [s EXCEPT !.format = Some("uuid")]

RECURSIVE WithConstraints(_, _)
WithConstraints(s, ks) ==
  IF ks = {} THEN s
  ELSE LET k == CHOOSE x \in ks : TRUE
       IN  WithConstraints(WithConstraint(s, k), ks \ {k})

ConstrainedDocs ==
  {[T("object") EXCEPT
      !.properties = Some(<<Prop("s", WithConstraints(b, ks)), Prop("t", T("number"))>>),
      !.required = Some(req)] :
     b \in {T("string"), TArr(<<"string", "null">>)},
     ks \in {x \in SUBSET ConstraintKeys : Cardinality(x) <= MaxKeys},
     req \in {<<>>, <<"s">>, <<"t">>}}

(* What a document says of itself: a description, a list of examples *)
Descriptions == {None, Some("about")}

ExampleLists == {None, Some(<<>>), Some(<<StrLit("e"), NumLit(2)>>)}

WithMetadata(s, d, e) == [s EXCEPT !.description = d, !.examples = e]

(* Objects without properties: their model has no field *)
EmptyDocs ==
  {WithMetadata([T("object") EXCEPT !.properties = Some(<<>>)], d, e) :
     d \in Descriptions, e \in ExampleLists}

(* A property with examples and badExamples of its own, a string or a      *)
(* discriminated union, in a document with or without examples            *)
WithExamples(s, e, b) == [s EXCEPT !.examples = e, !.badExamples = b]

ExampleDocs ==
  {WithMetadata([T("object") EXCEPT
                   !.properties = Some(<<Prop("s", WithExamples(x, e, b))>>)], None, m) :
     x \in {T("string"), Wrap("dis", StringLeaf)},
     e \in {None, Some(<<StrLit("ok"), NumLit(1)>>)},
     b \in {None, Some(<<StrLit("no")>>)},
     m \in ExampleLists}

(* Discriminated unions whose variants list required properties, the tag   *)
(* among them or not                                                       *)
RequiredLists == {<<>>, <<"p">>, <<"kind", "q">>, <<"q", "kind", "p">>}

TaggedVariant(v, req) ==
  [T("object") EXCEPT
     !.properties = Some(<<Prop("p", T("string")), Prop("kind", ConstNode(v)),
                           Prop("q", T("number"))>>),
     !.required = Some(req)]

DiscriminatedDocs ==
  {[Node0 EXCEPT !.oneOf = Some(<<TaggedVariant("a", r1), TaggedVariant("b", r2)>>)] :
     r1 \in RequiredLists, r2 \in RequiredLists}

(* Constraint keys present with the values 0 and the empty string *)
ZeroValueDocs ==
  {[T("object") EXCEPT
      !.properties =
         Some(<<Prop("s", [T("string") EXCEPT !.minLength = n, !.pattern = pt,
                                              !.format = fm, !.maxItems = m])>>)] :
     n \in {None, Some(0)}, pt \in {None, Some(""), Some("^a")},
     fm \in {None, Some(""), Some("email")}, m \in {None, Some(0)}}

(* A property with a description of its own, on a plain node, on a         *)
(* nullable wrapper whose inner node has one or not, on a plain union and  *)
(* on a discriminated union                                                *)
DescribedDocs ==
  {[T("object") EXCEPT !.properties = Some(<<Prop("s", [w EXCEPT !.description = d])>>)] :
     w \in {T("string"), Wrap("nul", T("string")),
            Wrap("nul", [T("string") EXCEPT !.description = Some("inner")]),
            Wrap("uni", StringLeaf), Wrap("dis", StringLeaf)},
     d \in {None, Some("outer")}}

RenderDocs ==
  ChainDocs(2) \cup ConstrainedDocs \cup EmptyDocs \cup ExampleDocs \cup DiscriminatedDocs
    \cup ZeroValueDocs \cup DescribedDocs

(* The style a caller passes: none, a default theme's name, or another string *)
Styles == {"standard", "expanded", "condensed", "json", "brief", "fancy", ""}

IndentSizes == {2, 4}

RequestSet ==
  {ThemeFormatOptions(None, None)}
    \cup {ThemeFormatOptions(Some(st), None) : st \in Styles}
    \cup {ThemeFormatOptions(Some(st), Some(n)) : st \in Styles, n \in IndentSizes}

(* The themes a caller registers: a new name, and a default name again *)
CallerThemes == {Theme("brief", "CondensedTheme"), Theme("json", "StandardTheme")}

(* model = extractToModel(document) *)
BuildModel ==
  /\ pc = "idle"
  /\ \E s \in RenderDocs :
       /\ ~throwsToModel(s, NoOptions)
       /\ schema' = s
       /\ fields' = extractToModel(s, NoOptions)
  /\ options' = NoOptions
  /\ outcome' = "returned"
  /\ pc' = "model"
  /\ request' = NoRequest
  /\ text' = <<>>
  /\ message' = <<>>
  /\ UNCHANGED <<kind, unwrapped, themes>>
  /\ UNCHANGED callVars
  /\ UNCHANGED adapterVars

(* defaultRegistry.register(theme) *)
RegisterTheme ==
  /\ pc = "model"
  /\ \E th \in CallerThemes : themes' = register(themes, th)
  /\ UNCHANGED <<pc, schema, options, outcome, fields, kind, unwrapped, request, text, message>>
  /\ UNCHANGED callVars
  /\ UNCHANGED adapterVars

(* formatModel(model, request) *)
FormatModel ==
  /\ pc = "model"
  /\ \E opts \in RequestSet :
       LET r == formatModel(themes, fields, Metadata(schema), opts)
       IN  /\ request' = opts
           /\ outcome' = IF r.threw THEN "threw" ELSE "returned"
           /\ text' = r.text
           /\ message' = r.message
  /\ pc' = "formatModel"
  /\ UNCHANGED <<schema, options, fields, kind, unwrapped, themes>>
  /\ UNCHANGED callVars
  /\ UNCHANGED adapterVars

(* The caller lets go of the model; the registry lives on *)
DropModel ==
  /\ pc \in {"model", "formatModel"}
  /\ pc' = "idle"
  /\ schema' = Node0
  /\ options' = NoOptions
  /\ outcome' = "none"
  /\ fields' = <<>>
  /\ request' = NoRequest
  /\ text' = <<>>
  /\ message' = <<>>
  /\ UNCHANGED <<kind, unwrapped, themes>>
  /\ UNCHANGED callVars
  /\ UNCHANGED adapterVars

NextRender == BuildModel \/ RegisterTheme \/ FormatModel \/ DropModel

SpecRender == Init /\ [][NextRender]_vars

-----------------------------------------------------------------------------
(* A PromptSchema in use: the caller registers adapters and calls toPrompt *)
(* on it, and calls getPrompts, which builds a PromptSchema of its own     *)

MaxAdapters == 3

(* The adapters of the library and of its tests *)
AdapterSet ==
  { zodV3Adapter, jsonSchemaAdapter,
    Adapter("error", "throws", "passthrough", Node0),
    Adapter("fallback", "always", "constant", T("string")),
    Adapter("first", "never", "passthrough", Node0) }

FlatDoc ==
  [T("object") EXCEPT
     !.properties = Some(<<Prop("name", T("string")), Prop("age", T("number"))>>),
     !.required = Some(<<"name">>)]

(* Documents a schema stands for; the last one makes extractToModel throw *)
AdapterDocs == {T("number"), FlatDoc, Wrap("rec", ObjectLeaf)}

BrokenDoc == Wrap("obj", NullNode)

Inputs ==
  { NoInput, Input(FALSE, {}, FALSE, Node0) }
    \cup {Input(FALSE, {"type"}, FALSE, d) : d \in AdapterDocs \cup {BrokenDoc}}
    \cup {Input(FALSE, {"_def"}, TRUE, d) : d \in AdapterDocs}
    \cup {Input(FALSE, {"_def"}, FALSE, Node0)}
    \cup {Input(FALSE, m, TRUE, d) : m \in {{"_zod"}, {"_def", "_zod"}}, d \in AdapterDocs}
    \cup {Input(FALSE, {"_zod"}, FALSE, Node0)}

Themes == {None, Some("condensed"), Some("fancy")}

ToPromptOptions ==
  {PromptOptions(th, md, None) : th \in Themes, md \in {None, Some(1)}}

GetPromptsOptions ==
  {PromptOptions(th, None, sf) : th \in Themes, sf \in {None, Some(TRUE), Some(FALSE)}}

(* converter.registerAdapter(adapter) *)
RegisterAdapter ==
  /\ pc = "idle"
  /\ Len(adapters) < MaxAdapters
  /\ \E a \in AdapterSet :
       /\ adapters' = registerAdapter(adapters, a)
       /\ registered' = Append(registered, a.name)
  /\ UNCHANGED <<pc, schema, options, outcome, fields, kind, unwrapped, input, prompt, used>>
  /\ UNCHANGED callVars
  /\ UNCHANGED renderVars

(* The outcome of a call as the caller sees it *)
Outcome(r) ==
  /\ outcome' = IF r.threw THEN "threw" ELSE "returned"
  /\ text' = r.text
  /\ message' = r.message

(* converter.toPrompt(s, opts) *)
ToPrompt ==
  /\ pc = "idle"
  /\ \E s \in Inputs, opts \in ToPromptOptions :
       /\ input' = s
       /\ prompt' = opts
       /\ used' = IF Has(FindAdapter(adapters, s)) THEN Get(FindAdapter(adapters, s)).name ELSE ""
       /\ Outcome(toPrompt(themes, adapters, s, opts))
  /\ pc' = "toPrompt"
  /\ UNCHANGED <<schema, options, fields, kind, unwrapped, themes, request, adapters, registered>>
  /\ UNCHANGED callVars

(* getPrompts(s, opts) *)
GetPrompts ==
  /\ pc = "idle"
  /\ \E s \in Inputs, opts \in GetPromptsOptions :
       /\ input' = s
       /\ prompt' = opts
       /\ used' = IF Has(FindAdapter(FreshAdapters(s), s))
                    THEN Get(FindAdapter(FreshAdapters(s), s)).name ELSE ""
       /\ Outcome(getPrompts(themes, s, opts))
  /\ pc' = "getPrompts"
  /\ UNCHANGED <<schema, options, fields, kind, unwrapped, themes, request, adapters, registered>>
  /\ UNCHANGED callVars

(* The caller has read the result; the PromptSchema lives on *)
Continue ==
  /\ pc \in {"toPrompt", "getPrompts"}
  /\ pc' = "idle"
  /\ input' = NoInput
  /\ prompt' = NoPrompt
  /\ used' = ""
  /\ outcome' = "none"
  /\ text' = <<>>
  /\ message' = <<>>
  /\ UNCHANGED <<schema, options, fields, kind, unwrapped, themes, request, adapters, registered>>
  /\ UNCHANGED callVars

NextAdapters == RegisterAdapter \/ ToPrompt \/ GetPrompts \/ Continue

SpecAdapters == Init /\ [][NextAdapters]_vars

-----------------------------------------------------------------------------
(* Walking an extracted Field tree *)

RECURSIVE VariantFields(_)
VariantFields(vs) ==
  IF vs = <<>> THEN <<>> ELSE Head(vs).fields \o VariantFields(Tail(vs))

(* Every entry directly below a Field, nested Fields and bare kinds alike *)
Children(f) ==
  f.objectFields \o f.arrayItemType \o f.tupleItems \o f.recordValueType
    \o f.unionTypes \o VariantFields(f.unionVariants)

(* The entries in item, slot, value and alternative position below a Field *)
Items(f) == f.arrayItemType \o f.tupleItems \o f.recordValueType \o f.unionTypes

RECURSIVE FieldsIn(_)
FieldsIn(es) ==
  IF es = <<>> THEN {}
  ELSE (IF Head(es).bare THEN {} ELSE {Head(es)} \cup FieldsIn(Children(Head(es))))
         \cup FieldsIn(Tail(es))

AllFields == FieldsIn(fields)

(* The Fields built by extractField: it alone assigns isNullable *)
PropertyFields == {f \in AllFields : "isNullable" \in f.set}

(* Every list produced by extractObjectFields in the tree *)
FieldLists ==
  {f.objectFields : f \in AllFields}
    \cup UNION {{f.unionVariants[i].fields : i \in 1..Len(f.unionVariants)} : f \in AllFields}
    \cup (IF TypeIs(schema, "object") /\ Has(schema.properties) THEN {fields} ELSE {})

Extracted == pc = "extractToModel" /\ outcome = "returned"

ObjectRoot == TypeIs(schema, "object") /\ Has(schema.properties)

(* The maxDepth the caller configured: the number given, else the default *)
ConfiguredMaxDepth ==
  IF options.given = "number" THEN options.maxDepth ELSE OptionsMaxDepth

-----------------------------------------------------------------------------
(* C1: for a root document of type object with a properties map, the model *)
(* has exactly one top-level Field per property, with the same names, and  *)
(* a Field is required exactly when its name is in the root's required     *)
(* list.                                                                   *)
C1_OneFieldPerProperty ==
  (Extracted /\ ObjectRoot) =>
    LET props == Get(schema.properties)
        required == IF Has(schema.required) THEN SeqToSet(Get(schema.required)) ELSE {}
    IN  /\ Len(fields) = Len(props)
        /\ {fields[i].name : i \in 1..Len(fields)} = {props[i].name : i \in 1..Len(props)}
        /\ \A i \in 1..Len(fields) : fields[i].isRequired <=> (fields[i].name \in required)

C1_Witness ==
  /\ Extracted /\ ObjectRoot
  /\ Len(fields) >= 2
  /\ \E i, j \in 1..Len(fields) : fields[i].isRequired /\ ~fields[j].isRequired
  /\ \E nm \in SeqToSet(Get(schema.required)) :
       \A i \in 1..Len(fields) : Get(schema.properties)[i].name /= nm

Bucket(f) ==
  IF f.discriminatorField /= "" THEN 1
  ELSE IF f.isRequired THEN 2
  ELSE 3

(* The sort key the comparator orders by: tag first, then required *)
SortKey(f) ==
  (IF f.discriminatorField /= "" THEN 0 ELSE 2) + (IF f.isRequired THEN 0 ELSE 1)

C4_ObjectFieldsOnlyBelowMaxDepth ==
  Extracted =>
    \A f \in PropertyFields :
      "objectFields" \in f.set => f.depth < ConfiguredMaxDepth

(* C5 as claimed, for a configured maxDepth of at least 1: at or beyond the *)
(* bound an array item, tuple slot, record value or union alternative is a  *)
(* bare kind, never a nested Field.                                         *)
C5_BareKindsAtTheBound ==
  (Extracted /\ ConfiguredMaxDepth >= 1) =>
    \A f \in AllFields : \A i \in 1..Len(Items(f)) :
      Items(f)[i].bare \/ Items(f)[i].depth < ConfiguredMaxDepth

(* C6 as claimed: with maxDepth = 0 supplied, no property Field receives    *)
(* objectFields and no oneOf/anyOf node is resolved into union payloads.    *)
C6_MaxDepthZeroExpandsNothing ==
  (Extracted /\ options.given = "number" /\ options.maxDepth = 0) =>
    \A f \in PropertyFields :
      /\ "objectFields" \notin f.set
      /\ "unionVariants" \notin f.set
      /\ ~("unionTypes" \in f.set /\ Has(f.description)
             /\ Head(Get(f.description)) = "Union of ")

(* C7 as claimed: along every chain of nested extraction calls the depth    *)
(* argument strictly increases, and a call whose depth has reached maxDepth *)
(* expands no children.                                                     *)
C7_DepthStrictlyBoundsRecursion ==
  (Extracted /\ ConfiguredMaxDepth >= 1) =>
    \A f \in AllFields :
      /\ \A i \in 1..Len(Children(f)) :
           Children(f)[i].bare \/ Children(f)[i].depth > f.depth
      /\ f.depth >= ConfiguredMaxDepth =>
           \A i \in 1..Len(Children(f)) : Children(f)[i].bare

(* C8 as claimed: extractToModel never throws, whatever the document *)
C8_NeverThrows == pc = "extractToModel" => outcome = "returned"

NullBranches(s) == {i \in 1..Len(Get(s.anyOf)) : TypeIs(Get(s.anyOf)[i], "null")}

OtherBranches(s) == {i \in 1..Len(Get(s.anyOf)) : ~TypeIs(Get(s.anyOf)[i], "null")}

TypeArrayWithNull(s) == s.typeKind = "array" /\ "null" \in SeqToSet(s.type)

(* What the first encoding returns for its only non-null branch b *)
InnerOf(b) ==
  IF Has(b.anyOf) /\ \E k \in 1..Len(Get(b.anyOf)) : ~Has(Get(b.anyOf)[k].not)
    THEN LET k == CHOOSE k \in 1..Len(Get(b.anyOf)) :
                    /\ ~Has(Get(b.anyOf)[k].not)
                    /\ \A m \in 1..(k - 1) : Has(Get(b.anyOf)[m].not)
         IN  Get(b.anyOf)[k]
    ELSE b

(* What the second encoding returns: the node with 'null' stripped of type *)
StripNull(s) ==
  LET rest == SelectSeq(s.type, LAMBDA t : t /= "null")
  IN  [s EXCEPT !.type = rest, !.typeKind = IF Len(rest) = 1 THEN "string" ELSE "array"]

(* C10 as claimed: isNullable is true only for an anyOf with exactly one   *)
(* null-typed branch and exactly one non-null branch, or for a type array  *)
(* containing 'null'; every other shape, an anyOf with several null        *)
(* branches included, is returned unchanged with isNullable false.         *)
C10_Original ==
  (pc = "unwrapNullable" /\ outcome = "returned") =>
    LET first == /\ Has(schema.anyOf)
                 /\ Cardinality(NullBranches(schema)) = 1
                 /\ Cardinality(OtherBranches(schema)) = 1
    IN  /\ unwrapped.isNullable <=> (first \/ TypeArrayWithNull(schema))
        /\ ~unwrapped.isNullable => unwrapped.actualSchema = schema

(* C10 as amended: isNullable is true exactly for (1) an anyOf with at      *)
(* least one null-typed branch and exactly one non-null branch, returning   *)
(* that branch, or its first anyOf branch lacking a 'not' marker when it    *)
(* has one; (2) otherwise a type array containing 'null', returning the     *)
(* node with 'null' stripped (a single name when one remains, else the      *)
(* residual list).  Every other shape is returned unchanged.                *)
C10_NullableEncodings ==
  (pc = "unwrapNullable" /\ outcome = "returned") =>
    LET first == /\ Has(schema.anyOf)
                 /\ Cardinality(NullBranches(schema)) >= 1
                 /\ Cardinality(OtherBranches(schema)) = 1
    IN  /\ unwrapped.isNullable <=> (first \/ TypeArrayWithNull(schema))
        /\ first =>
             unwrapped.actualSchema =
               InnerOf(Get(schema.anyOf)[CHOOSE i \in OtherBranches(schema) : TRUE])
        /\ (~first /\ TypeArrayWithNull(schema)) => unwrapped.actualSchema = StripNull(schema)
        /\ ~unwrapped.isNullable => unwrapped.actualSchema = schema

C10_Witness ==
  /\ pc = "unwrapNullable" /\ outcome = "returned"
  /\ Has(schema.anyOf)
  /\ Cardinality(NullBranches(schema)) = 2
  /\ Cardinality(OtherBranches(schema)) = 1
  /\ unwrapped.isNullable
  /\ unwrapped.actualSchema = T("integer")

(* The root is extracted by extractUnionField: a oneOf/anyOf document that *)
(* is neither an object root nor an array root                             *)
UnionRoot ==
  /\ Extracted
  /\ ~ObjectRoot
  /\ ~(TypeIs(schema, "array") /\ schema.itemsKind /= "absent")
  /\ Truthy(schema, "oneOf") \/ Truthy(schema, "anyOf")

(* schema.oneOf || schema.anyOf: the branch list of the root union *)
RootVariants ==
  IF Has(schema.oneOf) THEN Get(schema.oneOf)
  ELSE IF Has(schema.anyOf) THEN Get(schema.anyOf)
  ELSE <<>>

(* The candidate names, by priority index, that every root branch carries *)
(* as a property with a const value                                       *)
QualifyingNames ==
  {n \in 1..Len(DiscriminatorNames) :
     \A i \in 1..Len(RootVariants) :
       /\ Has(RootVariants[i].properties)
       /\ \E j \in 1..Len(Get(RootVariants[i].properties)) :
            /\ Get(RootVariants[i].properties)[j].name = DiscriminatorNames[n]
            /\ ~Get(RootVariants[i].properties)[j].schema.isNull
            /\ Has(Get(RootVariants[i].properties)[j].schema.const)}

(* The const a branch carries on the named property *)
ConstOf(variant, name) ==
  LET props == Get(variant.properties)
      j == CHOOSE k \in 1..Len(props) : props[k].name = name
  IN  Get(props[j].schema.const)

(* C11: when some candidate name ('type', 'kind', 'discriminator', in that *)
(* priority) is carried as a const property by every branch of the root    *)
(* union, the union is discriminated on the first such name and has one    *)
(* variant per branch, in branch order, each with the branch's stringified *)
(* const and the branch's extracted object fields, the discriminator field *)
(* among them.                                                             *)
C11_DiscriminatedOnFirstQualifyingName ==
  (UnionRoot /\ QualifyingNames /= {}) =>
    LET n == CHOOSE m \in QualifyingNames : \A k \in QualifyingNames : m <= k
        name == DiscriminatorNames[n]
        f == fields[1]
    IN  /\ Len(fields) = 1
        /\ f.type = "discriminated-union"
        /\ f.discriminatorField = name
        /\ Len(f.unionVariants) = Len(RootVariants)
        /\ \A i \in 1..Len(RootVariants) :
             /\ f.unionVariants[i].discriminatorValue = String(ConstOf(RootVariants[i], name))
             /\ f.unionVariants[i].fields =
                  extractObjectFields(RootVariants[i], MergeOptions(options), 1)
             /\ \E j \in 1..Len(f.unionVariants[i].fields) :
                  f.unionVariants[i].fields[j].name = name

(* Two branches, 'kind' on both and 'type' on one only: discriminated on 'kind' *)
C11_Witness ==
  /\ UnionRoot
  /\ QualifyingNames = {2}
  /\ Len(RootVariants) = 2
  /\ \E i \in 1..2 : \E j \in 1..Len(Get(RootVariants[i].properties)) :
       /\ Get(RootVariants[i].properties)[j].name = "type"
       /\ Has(Get(RootVariants[i].properties)[j].schema.const)
  /\ fields[1].discriminatorField = "kind"
  /\ Len(fields[1].unionVariants) = 2

(* C12 as stated: a root union with a branch that lacks a const on its    *)
(* 'type' property is extracted as a plain union.                         *)
C12_Original ==
  (UnionRoot /\ 1 \notin QualifyingNames) =>
    /\ fields[1].type = "union"
    /\ "unionTypes" \in fields[1].set

(* C12: a root union for which none of the candidate names 'type', 'kind', *)
(* 'discriminator' is carried as a const property by every branch is       *)
(* extracted as a plain union: kind union, one unionTypes entry per branch *)
(* and no variants.                                                        *)
C12_PlainUnionWhenNoNameQualifies ==
  (UnionRoot /\ QualifyingNames = {}) =>
    /\ Len(fields) = 1
    /\ fields[1].type = "union"
    /\ "unionTypes" \in fields[1].set
    /\ "unionVariants" \notin fields[1].set
    /\ Len(fields[1].unionTypes) = Len(RootVariants)
    /\ fields[1].unionVariants = <<>>

(* One branch has a const 'type', the other is a plain string *)
C12_Witness ==
  /\ UnionRoot
  /\ QualifyingNames = {}
  /\ Len(RootVariants) = 2
  /\ \E i \in 1..2 : Has(PropConst(RootVariants[i], "type"))
  /\ fields[1].type = "union"

(* The type-specific payload attributes of a Field, and the group of each kind *)
PayloadAttrs ==
  {"enumValues", "arrayItemType", "tupleItems", "recordKeyType", "recordValueType",
   "objectFields", "unionTypes", "unionVariants", "discriminatorField"}

OwnPayload(type) ==
  CASE type = "enum" -> {"enumValues"}
    [] type = "array" -> {"arrayItemType"}
    [] type = "tuple" -> {"tupleItems"}
    [] type = "record" -> {"recordKeyType", "recordValueType"}
    [] type = "object" -> {"objectFields"}
    [] type = "union" -> {"unionTypes"}
    [] type = "discriminated-union" -> {"unionVariants", "discriminatorField"}
    [] OTHER -> {}

(* C13 as stated: every Field has exactly the payload group of its kind set *)
C13_Original ==
  Extracted => \A f \in AllFields : f.set \cap PayloadAttrs = OwnPayload(f.type)

(* C13: no Field has a payload attribute of another kind set, except that  *)
(* an enum Field may carry discriminatorField, which then is its own name; *)
(* a Field of kind enum, tuple, record or discriminated-union always has   *)
(* its whole payload group set, and a Field of kind array, object or union *)
(* has either its whole group or none of it.                               *)
C13_PayloadMatchesKind ==
  Extracted =>
    \A f \in AllFields :
      LET payload == f.set \cap PayloadAttrs
      IN  /\ payload \subseteq
               OwnPayload(f.type) \cup (IF f.type = "enum" THEN {"discriminatorField"} ELSE {})
          /\ (f.type = "enum" /\ "discriminatorField" \in f.set)
               => f.discriminatorField = f.name
          /\ f.type \in {"enum", "tuple", "record", "discriminated-union"}
               => OwnPayload(f.type) \subseteq payload
          /\ f.type \in {"array", "object", "union"}
               => (payload = OwnPayload(f.type) \/ payload = {})

(* A model holding a const Field that carries discriminatorField, inside a *)
(* discriminated union, next to an object Field without objectFields       *)
C13_Witness ==
  /\ Extracted
  /\ \E f \in AllFields : f.type = "enum" /\ "discriminatorField" \in f.set
  /\ \E f \in AllFields : f.type = "discriminated-union" /\ Len(f.unionVariants) > 0
  /\ \E f \in AllFields : f.type = "object" /\ "objectFields" \notin f.set

-----------------------------------------------------------------------------
(* Rendering claims, over SpecRender *)

Formatted == pc = "formatModel"

(* The theme name the caller asked for *)
RequestedName == Get(request.style)

Registered(name) == \E i \in 1..Len(themes) : themes[i].name = name

(* C15: rendering under a theme name that is not registered fails with an  *)
(* error that names the requested theme and lists the registered names;    *)
(* rendering under a registered name does not fail; a failed render leaves *)
(* the registry as it was                                                  *)
C15_UnknownThemeFails ==
  /\ [](Formatted /\ Has(request.style) =>
          IF Registered(RequestedName)
            THEN outcome = "returned"
            ELSE /\ outcome = "threw"
                 /\ \E i \in 1..Len(message) : message[i] = RequestedName
                 /\ \A n \in SeqToSet(list(themes)) :
                      \E i \in 1..Len(message) : message[i] = n)
  /\ [][outcome' = "threw" => themes' = themes]_vars

(* The render used the theme registered under this name, of this class *)
RenderedAs(name, class) ==
  /\ Formatted
  /\ outcome = "returned"
  /\ ThemeNameOf(request) = name
  /\ Get(get(themes, name)).class = class

FieldLines == {i \in 1..Len(text) : text[i].of = "field"}

(* The modifiers of a Field as the parenthesised suffix of its line *)
ModifierSuffix(f) ==
  LET words == (IF f.isRequired THEN <<(<<"required">>)>> ELSE <<>>)
                 \o (IF f.isNullable THEN <<(<<"nullable">>)>> ELSE <<>>)
                 \o [i \in 1..Len(f.constraints) |-> f.constraints[i].display]
  IN  IF words = <<>> THEN <<>>
      ELSE <<" (">> \o JoinPieces(words, Bullet) \o <<")">>

(* C19: in the standard theme the line of every Field that is not a        *)
(* discriminated union is '- name: <type>' followed by its modifiers in    *)
(* parentheses joined by the bullet, 'required' first when isRequired,     *)
(* 'nullable' next when isNullable, then the constraints' display texts in *)
(* order; a Field without modifiers has no parentheses                     *)
C19_StandardFieldLine ==
  RenderedAs("standard", "StandardTheme") =>
    /\ \A i \in 1..Len(fields) : \E j \in FieldLines : text[j].src = fields[i]
    /\ \A j \in FieldLines :
         text[j].src.type /= "discriminated-union" =>
           text[j].text =
             <<"- ", text[j].src.name, ": ">>
               \o StandardTheme_getTypeRepresentation(text[j].src)
               \o ModifierSuffix(text[j].src)

(* A required nullable string with two constraints next to an optional     *)
(* unconstrained number                                                    *)
C19_Witness ==
  /\ RenderedAs("standard", "StandardTheme")
  /\ \E j \in FieldLines :
       text[j].text = <<"- ", "s", ": ", "string", " (", "required", Bullet, "nullable", Bullet,
                        "min ", "1", " chars", Bullet, "format: ", "email", ")">>
  /\ \E j \in FieldLines : text[j].text = <<"- ", "t", ": ", "number">>

(* The Field lists directly below a Field on the paths a renderer is to    *)
(* follow: objectFields, the fields of a record's value object, the fields *)
(* of an array's item object, the variants of an array's item union, and   *)
(* the variants of a discriminated union                                   *)
NestedLists(f) ==
  f.objectFields
    \o (IF f.type = "record" /\ IsObject(f.recordValueType)
          THEN Get(f.recordValueType).objectFields ELSE <<>>)
    \o (IF f.type = "array" /\ IsObject(f.arrayItemType)
          THEN Get(f.arrayItemType).objectFields
                 \o VariantFields(Get(f.arrayItemType).unionVariants)
          ELSE <<>>)
    \o VariantFields(f.unionVariants)

RECURSIVE FieldsToRender(_)
FieldsToRender(fs) ==
  IF fs = <<>> THEN {}
  ELSE {Head(fs)} \cup FieldsToRender(NestedLists(Head(fs))) \cup FieldsToRender(Tail(fs))

RenderedFields == {text[j].src : j \in FieldLines}

(* C20: under every theme every Field of the model tree is rendered, the   *)
(* renderer recursing into objectFields, a record's value-object fields,   *)
(* an array item's object fields and union variants, and the variants of a *)
(* discriminated union                                                     *)
C20_EveryFieldRendered ==
  Formatted /\ outcome = "returned" => FieldsToRender(fields) \subseteq RenderedFields

-----------------------------------------------------------------------------
(* Adapter claims, over SpecAdapters *)

Reverse(q) == [i \in 1..Len(q) |-> q[Len(q) + 1 - i]]

(* The positions of the adapters whose canHandle returns true for the input *)
Accepting == {i \in 1..Len(adapters) : canHandle(adapters[i], input) = "true"}

FirstAccepting == CHOOSE i \in Accepting : \A j \in Accepting : i <= j

(* What the call made of the result r of a conversion *)
CallerSaw(r) ==
  /\ outcome = (IF r.threw THEN "threw" ELSE "returned")
  /\ text = r.text
  /\ message = r.message

(* toPrompt's result when the adapter at position i converts the input *)
ConvertedBy(i) ==
  IF throwsToJsonSchema(adapters[i], input) THEN Thrown(<<"conversion error">>)
  ELSE formatWithModel(themes, toJsonSchema(adapters[i], input), prompt)

(* C16: getAdapters lists the names most recently registered first;        *)
(* toPrompt converts with the first adapter in that order whose canHandle  *)
(* accepts the schema; when none accepts it throws an error starting 'No   *)
(* adapter found for schema'; toPrompt leaves the adapter list unchanged   *)
C16_LatestAdapterFirst ==
  /\ [](getAdapters(adapters) = Reverse(registered))
  /\ [](pc = "toPrompt" =>
          IF Accepting /= {}
            THEN used = getAdapters(adapters)[FirstAccepting]
                   /\ CallerSaw(ConvertedBy(FirstAccepting))
            ELSE outcome = "threw"
                   /\ Head(message) = "No adapter found for schema. Registered adapters: ")
  /\ [][pc' = "toPrompt" => adapters' = adapters]_vars

(* Two adapters registered in turn both accept; the later one converts *)
C16_Witness ==
  /\ pc = "toPrompt"
  /\ registered = <<"json-schema", "fallback">>
  /\ Accepting = {1, 2}
  /\ used = "fallback"
  /\ outcome = "returned"

(* The positions of the adapters whose canHandle throws on the input *)
Throwing == {i \in 1..Len(adapters) : canHandle(adapters[i], input) = "threw"}

(* C17: an adapter whose canHandle throws is treated as not handling the   *)
(* schema: its error is not propagated, and the next adapter in order that *)
(* accepts the schema converts it                                          *)
C17_CanHandleErrorSkipped ==
  pc = "toPrompt" /\ Throwing /= {} =>
    IF Accepting /= {}
      THEN used = adapters[FirstAccepting].name /\ CallerSaw(ConvertedBy(FirstAccepting))
      ELSE outcome = "threw"
             /\ Head(message) = "No adapter found for schema. Registered adapters: "

(* The adapter checked first throws, the one checked after it accepts *)
C17_Witness ==
  /\ pc = "toPrompt"
  /\ 1 \in Throwing
  /\ Accepting /= {}
  /\ FirstAccepting = 2
  /\ used = adapters[2].name
  /\ outcome = "returned"

(* converter.toPrompt(schema, options) on the PromptSchema getPrompts builds *)
Converted == toPrompt(themes, FreshAdapters(input), input, prompt)

(* C18: with safe = true getPrompts never throws, and returns the fallback *)
(* text whenever lookup, conversion, extraction or rendering failed; with  *)
(* safe absent or false the failure reaches the caller; when the           *)
(* conversion succeeds the result is the same whatever the safe flag       *)
C18_SafeNeverThrows ==
  pc = "getPrompts" =>
    /\ prompt.safe = Some(TRUE) => outcome = "returned"
    /\ IF Converted.threw
         THEN IF prompt.safe = Some(TRUE)
                THEN outcome = "returned" /\ text = SafeText
                ELSE outcome = "threw" /\ message = Converted.message
         ELSE outcome = "returned" /\ text = Converted.text

(* The library fails to convert the schema, under safe = true *)
C18_Witness ==
  /\ pc = "getPrompts"
  /\ prompt.safe = Some(TRUE)
  /\ Converted.threw
  /\ Head(Converted.message) = "conversion error"
  /\ text = SafeText

(* The class of the theme a successful render used *)
RenderedBy(class) ==
  /\ Formatted
  /\ outcome = "returned"
  /\ Get(get(themes, ThemeNameOf(request))).class = class

HeadingOnly == <<Line(0, <<"## Schema">>, "heading", Field0)>>

(* An empty model, rendered by a registered theme *)
EmptyRendered == Formatted /\ fields = <<>> /\ Has(get(themes, ThemeNameOf(request)))

(* C21 as stated: a model with an empty field list renders without error  *)
(* as just the heading '## Schema' (standard, expanded) or as the empty    *)
(* string (condensed, json), whatever the metadata                         *)
C21_Original ==
  EmptyRendered =>
    /\ outcome = "returned"
    /\ RenderedBy("StandardTheme") \/ RenderedBy("ExpandedTheme") => text = HeadingOnly
    /\ RenderedBy("CondensedTheme") \/ RenderedBy("JSONTheme") => text = <<>>

(* C21: a model with an empty field list renders without error: as just    *)
(* the heading under standard; as the heading, followed by the Examples    *)
(* section exactly when the metadata has an example, under expanded; as    *)
(* the empty string under condensed; and as the JSON document with an      *)
(* empty fields list under json                                            *)
C21_EmptyModelRendering ==
  EmptyRendered =>
    /\ outcome = "returned"
    /\ RenderedBy("StandardTheme") => text = HeadingOnly
    /\ RenderedBy("ExpandedTheme") =>
         IF Has(schema.examples) /\ Get(schema.examples) /= <<>>
           THEN /\ SubSeq(text, 1, 1) = HeadingOnly
                /\ Len(text) > 1
                /\ \E i \in 2..Len(text) : text[i].text = <<"## Examples">>
           ELSE text = HeadingOnly
    /\ RenderedBy("CondensedTheme") => text = <<>>
    /\ RenderedBy("JSONTheme") =>
         /\ FieldLines = {}
         /\ text /= <<>>
         /\ \E i \in 1..Len(text) :
              /\ Len(text[i].text) >= 4
              /\ SubSeq(text[i].text, 1, 4) = <<"\"", "fields", "\": ", "[]">>

(* An empty model with document examples, under the expanded theme *)
C21_Witness ==
  /\ EmptyRendered
  /\ RenderedBy("ExpandedTheme")
  /\ Has(schema.examples) /\ Get(schema.examples) /= <<>>
  /\ Len(text) > 1

(* The constraints of a Field of the given kinds, in constraint order *)
OfKinds(f, kinds) == SelectSeq(f.constraints, LAMBDA c : c.type \in kinds)

(* What one constraint contributes to the brackets when lower holds the    *)
(* kinds written with the sign of 'at least' and upper those written with  *)
(* the sign of 'at most'                                                   *)
Contribution(c, lower, upper) ==
  IF c.type \in lower THEN <<">=", String(c.value)>>
  ELSE IF c.type \in upper THEN <<"<=", String(c.value)>>
  ELSE IF c.value = StrLit("email") THEN <<"@">>
  ELSE <<"url">>

IsCritical(c, lower, upper) ==
  \/ c.type \in lower \cup upper
  \/ c.type = "format" /\ c.value \in {StrLit("email"), StrLit("uri")}

(* The bracketed list of a Field's line, empty when nothing is critical *)
Brackets(f, lower, upper) ==
  LET crit == SelectSeq(f.constraints, LAMBDA c : IsCritical(c, lower, upper))
  IN  IF crit = <<>> THEN <<>>
      ELSE <<"[">> \o JoinPieces([i \in 1..Len(crit) |-> Contribution(crit[i], lower, upper)], ",")
             \o <<"]">>

(* Every condensed line of a Field that is not a discriminated union ends  *)
(* with these brackets                                                     *)
CondensedLines(lower, upper) ==
  RenderedBy("CondensedTheme") =>
    \A j \in FieldLines :
      text[j].src.type /= "discriminated-union" =>
        text[j].text =
          <<text[j].src.name, ":">> \o getCompactType(text[j].src)
            \o <<IF text[j].src.isRequired THEN "!" ELSE "?">>
            \o Brackets(text[j].src, lower, upper)

(* C22 as stated: only minimum, maximum, format email and format uri show  *)
(* in the brackets of a condensed line; minLength, maxLength, pattern,     *)
(* other formats, minItems and maxItems contribute nothing                 *)
C22_Original == CondensedLines({"min"}, {"max"})

(* C22: the brackets of a condensed line hold, in constraint order, the    *)
(* sign of 'at least' with the value for minimum, minLength and minItems,  *)
(* the sign of 'at most' with the value for maximum, maxLength and         *)
(* maxItems, '@' for format email and 'url' for format uri; a pattern or   *)
(* another format contributes nothing and a field with none of these has   *)
(* no brackets                                                             *)
C22_CriticalConstraints ==
  CondensedLines({"min", "minLength", "minItems"}, {"max", "maxLength", "maxItems"})

(* A line with a length bound in its brackets next to a dropped pattern *)
C22_Witness ==
  /\ RenderedBy("CondensedTheme")
  /\ \E j \in FieldLines :
       /\ text[j].text = <<"s", ":", "str", "!", "[", ">=", "1", "]">>
       /\ OfKinds(text[j].src, {"pattern"}) /= <<>>

(* The value of a member of a JSON object *)
MemberOf(obj, key) == SelectSeq(obj.members, LAMBDA m : m.key = key)[1].value

Keys(obj) == [i \in 1..Len(obj.members) |-> obj.members[i].key]

Names(fs) == [i \in 1..Len(fs) |-> fs[i].name]

(* The discriminated unions of the tree with a discriminatorField *)
Discriminated ==
  {f \in AllFields : f.type = "discriminated-union" /\ f.discriminatorField /= ""}

(* The text is the JSON document of the model *)
JsonRendered ==
  /\ RenderedBy("JSONTheme")
  /\ text = JSON_stringify(modelToJson(fields, Metadata(schema)),
                           IF Has(request.indentSize) THEN Get(request.indentSize)
                           ELSE DefaultIndentSize)

(* C23: in the json theme every variant of a discriminated union with a    *)
(* discriminatorField has the discriminator as the const member of its     *)
(* properties in place of the extracted discriminator Field, and its       *)
(* required list holds the discriminator name once, first, followed by     *)
(* the names of the other required fields in variant-field order           *)
C23_VariantRequiredList ==
  RenderedBy("JSONTheme") =>
    /\ JsonRendered
    /\ \A f \in Discriminated : \A i \in 1..Len(f.unionVariants) :
         /\ MemberOf(MemberOf(variantToJson(f.unionVariants[i], f.discriminatorField),
                              "properties"), f.discriminatorField).members
              = <<Member("const", JStr(f.unionVariants[i].discriminatorValue))>>
         /\ Keys(MemberOf(variantToJson(f.unionVariants[i], f.discriminatorField),
                          "properties"))
              = <<f.discriminatorField>>
                  \o Names(SelectSeq(f.unionVariants[i].fields,
                                     LAMBDA g : g.name /= f.discriminatorField))
         /\ MemberOf(variantToJson(f.unionVariants[i], f.discriminatorField),
                     "required").items
              = <<JStr(f.discriminatorField)>>
                  \o [k \in 1..Len(SelectSeq(f.unionVariants[i].fields,
                         LAMBDA g : g.isRequired /\ g.name /= f.discriminatorField)) |->
                        JStr(SelectSeq(f.unionVariants[i].fields,
                          LAMBDA g : g.isRequired /\ g.name /= f.discriminatorField)[k].name)]

(* A variant that lists its tag as required after another property, and    *)
(* one that does not list it                                               *)
C23_Witness ==
  /\ JsonRendered
  /\ \E f \in Discriminated :
       /\ Len(f.unionVariants) = 2
       /\ MemberOf(variantToJson(f.unionVariants[1], f.discriminatorField), "required").items
            = <<JStr("kind"), JStr("p"), JStr("q")>>
       /\ MemberOf(variantToJson(f.unionVariants[2], f.discriminatorField), "required").items
            = <<JStr("kind"), JStr("p")>>

(* The sub-bullets of field f that start with the given label *)
Labelled(f, label) ==
  {i \in 1..Len(text) : /\ text[i].of = "detail"
                        /\ text[i].src = f
                        /\ Len(text[i].text) > 0
                        /\ text[i].text[1] = label}

(* The label is printed for f exactly when exs is not empty, once, over    *)
(* the values of exs                                                       *)
LabelShows(f, label, exs) ==
  /\ Cardinality(Labelled(f, label)) = (IF Len(exs) > 0 THEN 1 ELSE 0)
  /\ \A i \in Labelled(f, label) : text[i].text = <<label>> \o ExampleValues(exs)

SectionLines == {i \in 1..Len(text) : text[i].text = <<"## Examples">>}

(* C24: in the expanded theme, for every rendered Field with examples the  *)
(* correct examples appear only under the 'Examples' label and the         *)
(* incorrect ones only under the invalid-examples bullet; the section      *)
(* '## Examples' appears exactly once, showing the first document example, *)
(* exactly when the metadata has at least one example                      *)
C24_ExamplesSeparatelyLabelled ==
  RenderedBy("ExpandedTheme") =>
    /\ \A f \in RenderedFields :
         Len(f.examples) > 0 =>
           /\ LabelShows(f, "- Examples: ", SelectSeq(f.examples, LAMBDA ex : ex.isCorrect))
           /\ LabelShows(f, "- INVALID Examples (DO NOT USE): ",
                         SelectSeq(f.examples, LAMBDA ex : ~ex.isCorrect))
    /\ IF Has(schema.examples) /\ Len(Get(schema.examples)) > 0
         THEN /\ Cardinality(SectionLines) = 1
              /\ \A i \in SectionLines :
                   /\ i + 3 <= Len(text)
                   /\ text[i + 3].text = JSONstringify(Get(schema.examples)[1])
         ELSE SectionLines = {}

(* The recognized keys in their fixed order, each with its constraint kind *)
RecognizedKeys ==
  << <<"minLength", "minLength">>, <<"maxLength", "maxLength">>, <<"pattern", "pattern">>,
     <<"format", "format">>, <<"minimum", "min">>, <<"maximum", "max">>,
     <<"minItems", "minItems">>, <<"maxItems", "maxItems">> >>

(* The kinds of the keys present on node n, in the fixed order *)
PresentKinds(n) ==
  LET present == SelectSeq(RecognizedKeys, LAMBDA k : Has(n[k[1]]))
  IN  [i \in 1..Len(present) |-> present[i][2]]

ConstraintKinds(f) == [i \in 1..Len(f.constraints) |-> f.constraints[i].type]

(* A model was built from an object document with properties *)
BuiltFromProperties == pc /= "idle" /\ Has(schema.properties)

(* C25: the constraints of the Field of a property are one entry for each  *)
(* recognized key present on its (unwrapped) node, whatever the value, in  *)
(* the fixed order minLength, maxLength, pattern, format, minimum,         *)
(* maximum, minItems, maxItems                                             *)
C25_OneEntryPerPresentKey ==
  BuiltFromProperties =>
    \A i \in 1..Len(Get(schema.properties)) :
      \A j \in 1..Len(fields) :
        fields[j].name = Get(schema.properties)[i].name =>
          ConstraintKinds(fields[j])
            = PresentKinds(unwrapNullable(Get(schema.properties)[i].schema).actualSchema)

(* The description a Field carries for the description d of a node *)
Carried(d) == IF Has(d) THEN Some(<<Get(d)>>) ELSE None

(* C26: the Field of a property carries the description of the property's  *)
(* own node when the node has one, whatever the Field's kind, plain unions *)
(* included; a Field whose node has none carries the description of the    *)
(* unwrapped node                                                          *)
C26_OwnDescriptionFirst ==
  BuiltFromProperties =>
    \A i \in 1..Len(Get(schema.properties)) :
      \A j \in 1..Len(fields) :
        fields[j].name = Get(schema.properties)[i].name =>
          IF NonEmpty(Get(schema.properties)[i].schema.description)
            THEN fields[j].description = Carried(Get(schema.properties)[i].schema.description)
            ELSE fields[j].type = "union"
                   \/ fields[j].description
                        = Carried(unwrapNullable(Get(schema.properties)[i].schema)
                                    .actualSchema.description)

(* A root array whose single item is a oneOf/anyOf was extracted *)
UnionItemRoot ==
  /\ Extracted
  /\ TypeIs(schema, "array")
  /\ schema.itemsKind = "single"
  /\ ~schema.items[1].isNull
  /\ Has(schema.items[1].oneOf) \/ Has(schema.items[1].anyOf)

ItemBranches ==
  IF Has(schema.items[1].oneOf) THEN Get(schema.items[1].oneOf)
  ELSE Get(schema.items[1].anyOf)

(* No candidate name is a const property of every branch of the item *)
PlainItem ==
  \A n \in 1..Len(DiscriminatorNames) :
    \E i \in 1..Len(ItemBranches) : ~Has(PropConst(ItemBranches[i], DiscriminatorNames[n]))

EnumBranches == SelectSeq(ItemBranches, LAMBDA b : Has(b.enum))

(* C27: the item type of an array whose item is a oneOf/anyOf is an enum   *)
(* Field named 'item' with the values of the first enum branch exactly     *)
(* when the item is a plain union with an enum branch; otherwise it is the *)
(* union Field itself, discriminated or plain, over all the branches       *)
C27_EnumBranchHoisted ==
  UnionItemRoot =>
    LET item == fields[1].arrayItemType[1]
    IN  /\ Len(fields) = 1
        /\ Len(fields[1].arrayItemType) = 1
        /\ ~item.bare
        /\ item.name = "item"
        /\ IF PlainItem /\ EnumBranches /= <<>>
             THEN /\ item.type = "enum"
                  /\ item.enumValues = MapString(Get(EnumBranches[1].enum))
                  /\ item.unionTypes = <<>>
             ELSE IF PlainItem
               THEN /\ item.type = "union"
                    /\ Len(item.unionTypes) = Len(ItemBranches)
               ELSE /\ item.type = "discriminated-union"
                    /\ Len(item.unionVariants) = Len(ItemBranches)

(* string | enum [a, b] | enum [c]: the item is the enum of a and b *)
C27_Witness ==
  /\ UnionItemRoot
  /\ Len(ItemBranches) = 2
  /\ ~Has(ItemBranches[1].enum)
  /\ Len(EnumBranches) = 1
  /\ fields[1].arrayItemType[1].type = "enum"
  /\ fields[1].arrayItemType[1].enumValues = <<"a", "b">>

(* A root oneOf/anyOf was extracted as a plain union *)
PlainUnionRoot == UnionRoot /\ QualifyingNames = {} /\ fields[1].type = "union"

(* C28: the description of a plain union is 'Union of ' followed by one    *)
(* name per branch, in branch order, joined by ', ', and each name is one  *)
(* of the Type Classifier's labels                                         *)
C28_UnionOfClassifierLabels ==
  PlainUnionRoot =>
    LET d == Get(fields[1].description)
    IN  /\ Has(fields[1].description)
        /\ Len(d) = 2 * Len(RootVariants)
        /\ d[1] = "Union of "
        /\ \A i \in 1..Len(RootVariants) :
             /\ d[2 * i] = getVariantType(RootVariants[i])
             /\ d[2 * i] \in FieldTypes
             /\ i > 1 => d[2 * i - 1] = ", "

(* C29: every kind of an extracted tree is a field kind: the type of each  *)
(* Field and each bare kind stored as an array item type, a tuple item, a  *)
(* record value type or a union type                                       *)
C29_KindsAreFieldKinds ==
  Extracted =>
    \A f \in AllFields :
      /\ f.type \in FieldTypes
      /\ \A i \in 1..Len(Items(f)) : Items(f)[i].type \in FieldTypes

(* C30: every Field of kind discriminated-union has at least one variant,  *)
(* and a root oneOf/anyOf extracted as discriminated has as many variants  *)
(* as branches, so that an empty branch list is never discriminated        *)
C30_DiscriminatedHasVariants ==
  Extracted =>
    /\ \A f \in AllFields :
         f.type = "discriminated-union" => Len(f.unionVariants) >= 1
    /\ (UnionRoot /\ fields[1].type = "discriminated-union") =>
         /\ RootVariants /= <<>>
         /\ Len(fields[1].unionVariants) = Len(RootVariants)

=============================================================================
